---- MODULE Spec2Model ----
(***************************************************************************)
(* A model of the GoSkrafl crossword-game engine: the DAWG navigation      *)
(* engine and its navigators, the board and rack, tile moves (validation,  *)
(* application, scoring), the Appel-Jacobson move generator, the           *)
(* cross-check cache and the goroutine fan-out of GameState.GenerateMoves. *)
(*                                                                         *)
(* Runes are one-character strings, words are sequences of runes.  A nil   *)
(* tile pointer is the record NoTile, a nil *navState is NilState.  Bit    *)
(* maps over the alphabet are sets of runes; AllBits stands for ^uint(0).  *)
(***************************************************************************)
EXTENDS Integers, Sequences, FiniteSets, TLC

\* ------------------------------------------------------------------------
\* Program constants
\* ------------------------------------------------------------------------

BoardSize == 15

RackSize == 7

BingoBonus == 50

ABOVE == 0

LEFT == 1

RIGHT == 2

BELOW == 3

mNo == 1

mBoardTile == 2

mRackTile == 3

CrossCacheSize == 2048

\* ------------------------------------------------------------------------
\* Bounds of the model
\* ------------------------------------------------------------------------

\* Largest number of covers for which every iteration order of the Covers
\* map is explored
MaxPermCovers == 3

\* Largest number of calls that change the game
MaxChanges == 2

\* How far from the start square the explored moves may begin
MaxOffset == 1

\* Largest number of changes of the game after which moves are generated
MaxGenChanges == 1

\* Largest number of covers of the legal placements that are enumerated
MaxLegalCovers == 3

\* Largest number of patterns in the cross-check cache
MaxCached == 1

\* The number of rows and of columns for which GenerateMoves starts a
\* goroutine in the model of its channel, in place of BoardSize
ConcBoardSize == 2

\* How far from the start square the enumerated legal placements may begin
MaxReach == 3

\* The number of axis tasks whose memory is followed
MemTasks == 2

\* Largest number of navigations of one task
MaxNavs == 1

\* Largest number of letters a task accepts
MaxTaskSteps == 1

\* Largest number of edges a task enters from a node
MaxEdges == 1

\* Longest prefix of an edge a followed navigation enters
MaxPrefixLen == 2

\* The longest rack and the longest pattern that are looked up in the DAWG
MaxDawgLen == 4

\* ------------------------------------------------------------------------
\* Generic helpers on rune slices (utils.go)
\* ------------------------------------------------------------------------

ContainsRune(s, r) == \E i \in 1..Len(s) : s[i] = r

RemoveRune(s, r) ==
  IF ContainsRune(s, r)
  THEN LET ix == CHOOSE i \in 1..Len(s) :
                   s[i] = r /\ \A j \in 1..(i-1) : s[j] # r
       IN SubSeq(s, 1, ix-1) \o SubSeq(s, ix+1, Len(s))
  ELSE s

RECURSIVE SeqSum(_)
SeqSum(s) == IF s = <<>> THEN 0 ELSE Head(s) + SeqSum(Tail(s))

RECURSIVE Flatten(_)
Flatten(ss) == IF ss = <<>> THEN <<>> ELSE Head(ss) \o Flatten(Tail(ss))

Reverse(s) == [i \in 1..Len(s) |-> s[Len(s) + 1 - i]]

Range(s) == {s[i] : i \in 1..Len(s)}

\* ------------------------------------------------------------------------
\* The dictionary: an alphabet and a decoded DAWG (dawg.go)
\* ------------------------------------------------------------------------

\* Alphabet.asRunes of the model dictionary
Alphabet == <<"a", "b", "c">>

AlphabetSet == Range(Alphabet)

\* ^uint(0) restricted to the bits Alphabet.Member can test
AllBits == AlphabetSet

\* Alphabet.MakeSet: a '?' among the runes yields allSet
MakeSet(runes) ==
  IF ContainsRune(runes, "?") THEN AlphabetSet
  ELSE Range(runes) \cap AlphabetSet

\* Alphabet.Member
Member(r, set) == r \in (set \cap AlphabetSet)

NilState == [prefix |-> <<>>, nextNode |-> -1]

\* The decoded nodes of the model DAWG, as Dawg.iterNode returns them:
\* for each node offset its final bit (b[offset]&0x80) and its edges, each
\* a navState with a prefix (with '|' after a rune whose byte had the high
\* bit set) and a nextNode (0 if the edge ends the graph).
\* Vocabulary: aa ab aba abc ba bab cab
DawgNodes ==
  [n \in 0..2 |->
     CASE n = 0 -> [final |-> FALSE,
                    edges |-> << [prefix |-> <<"a">>, nextNode |-> 1],
                                 [prefix |-> <<"b", "a", "|", "b", "|">>, nextNode |-> 0],
                                 [prefix |-> <<"c", "a", "b", "|">>, nextNode |-> 0] >>]
       [] n = 1 -> [final |-> FALSE,
                    edges |-> << [prefix |-> <<"a", "|">>, nextNode |-> 0],
                                 [prefix |-> <<"b">>, nextNode |-> 2] >>]
       [] n = 2 -> [final |-> TRUE,
                    edges |-> << [prefix |-> <<"a", "|">>, nextNode |-> 0],
                                 [prefix |-> <<"c", "|">>, nextNode |-> 0] >>]]

iterNode(offset) == DawgNodes[offset].edges

\* ------------------------------------------------------------------------
\* Navigators (navigators.go).  A navigator is a record; every method
\* returns the navigator after the call, its return value in field ret.
\* ------------------------------------------------------------------------

\* --- FindNavigator
FindNavigator_Init(word) ==
  [kind |-> "Find", word |-> word, lenWord |-> Len(word), index |-> 0,
   found |-> FALSE, ret |-> FALSE]

FindNavigator_PushEdge(fn, chr) == [fn EXCEPT !.ret = (fn.word[fn.index + 1] = chr)]

FindNavigator_PopEdge(fn) == [fn EXCEPT !.ret = FALSE]

FindNavigator_IsAccepting(fn) == fn.index < fn.lenWord

FindNavigator_Accepts(fn, chr) == [fn EXCEPT !.index = fn.index + 1, !.ret = TRUE]

FindNavigator_Accept(fn, matched, final, state) ==
  IF final /\ fn.index = fn.lenWord THEN [fn EXCEPT !.found = TRUE] ELSE fn

\* --- PermutationNavigator
PermutationNavigator_Init(rack, minLen) ==
  [kind |-> "Permutation", rack |-> rack, minLen |-> minLen, stack |-> <<>>,
   results |-> <<>>, ret |-> FALSE]

PermutationNavigator_PushEdge(pn, chr) ==
  IF ContainsRune(pn.rack, chr) \/ ContainsRune(pn.rack, "?")
  THEN [pn EXCEPT !.stack = Append(pn.stack, pn.rack), !.ret = TRUE]
  ELSE [pn EXCEPT !.ret = FALSE]

PermutationNavigator_PopEdge(pn) ==
  LET last == Len(pn.stack)
  IN [pn EXCEPT !.rack = pn.stack[last],
                !.stack = SubSeq(pn.stack, 1, last - 1),
                !.ret = TRUE]

PermutationNavigator_IsAccepting(pn) == Len(pn.rack) > 0

\* An Accepts that leaves the matched letter in the rack
PermutationNavigator_AcceptsKeeping(pn, chr) ==
  [pn EXCEPT !.ret = ContainsRune(pn.rack, chr) \/ ContainsRune(pn.rack, "?")]

PermutationNavigator_Accepts(pn, chr) ==
  LET exactMatch == ContainsRune(pn.rack, chr)
  IN IF ~exactMatch /\ ~ContainsRune(pn.rack, "?")
     THEN [pn EXCEPT !.ret = FALSE]
     ELSE IF exactMatch
     THEN [pn EXCEPT !.rack = RemoveRune(pn.rack, chr), !.ret = TRUE]
     ELSE [pn EXCEPT !.rack = RemoveRune(pn.rack, "?"), !.ret = TRUE]

PermutationNavigator_Accept(pn, matched, final, state) ==
  IF final /\ Len(matched) >= pn.minLen
  THEN [pn EXCEPT !.results = Append(pn.results, matched)]
  ELSE pn

\* --- MatchNavigator
MatchNavigator_Init(pattern) ==
  [kind |-> "Match", pattern |-> pattern, lenP |-> Len(pattern), index |-> 0,
   chMatch |-> pattern[1], isWildcard |-> (pattern[1] = "?"),
   stack |-> <<>>, results |-> <<>>, ret |-> FALSE]

MatchNavigator_PushEdge(mn, chr) ==
  IF chr # mn.chMatch /\ ~mn.isWildcard
  THEN [mn EXCEPT !.ret = FALSE]
  ELSE [mn EXCEPT !.stack = Append(mn.stack,
                      [index |-> mn.index, chMatch |-> mn.chMatch,
                       isWildcard |-> mn.isWildcard]),
                  !.ret = TRUE]

MatchNavigator_PopEdge(mn) ==
  LET last == Len(mn.stack)
      mt == mn.stack[last]
  IN [mn EXCEPT !.index = mt.index, !.chMatch = mt.chMatch,
                !.isWildcard = mt.isWildcard,
                !.stack = SubSeq(mn.stack, 1, last - 1),
                !.ret = mt.isWildcard]

MatchNavigator_IsAccepting(mn) == mn.index < mn.lenP

MatchNavigator_Accepts(mn, chr) ==
  IF chr # mn.chMatch /\ ~mn.isWildcard
  THEN [mn EXCEPT !.ret = FALSE]
  ELSE LET ix == mn.index + 1
       IN IF ix < mn.lenP
          THEN [mn EXCEPT !.index = ix, !.chMatch = mn.pattern[ix + 1],
                          !.isWildcard = (mn.pattern[ix + 1] = "?"), !.ret = TRUE]
          ELSE [mn EXCEPT !.index = ix, !.ret = TRUE]

\* An Accept that takes every final match, whatever its length
MatchNavigator_AcceptAnyFinal(mn, matched, final, state) ==
  IF final THEN [mn EXCEPT !.results = Append(mn.results, matched)] ELSE mn

MatchNavigator_Accept(mn, matched, final, state) ==
  IF final /\ mn.index = mn.lenP
  THEN [mn EXCEPT !.results = Append(mn.results, matched)]
  ELSE mn

\* --- LeftFindNavigator
LeftFindNavigator_Init(prefix) ==
  [kind |-> "LeftFind", prefix |-> prefix, lenP |-> Len(prefix), index |-> 0,
   state |-> NilState, ret |-> FALSE]

LeftFindNavigator_PushEdge(lfn, chr) ==
  [lfn EXCEPT !.ret = (lfn.prefix[lfn.index + 1] = chr)]

LeftFindNavigator_PopEdge(lfn) == [lfn EXCEPT !.ret = FALSE]

LeftFindNavigator_IsAccepting(lfn) == lfn.index < lfn.lenP

LeftFindNavigator_Accepts(lfn, chr) ==
  [lfn EXCEPT !.index = lfn.index + 1, !.ret = TRUE]

LeftFindNavigator_Accept(lfn, matched, final, state) ==
  IF lfn.index = lfn.lenP THEN [lfn EXCEPT !.state = state] ELSE lfn

\* --- LeftPermutationNavigator
LeftPermutationNavigator_Init(rack) ==
  LET maxLeft == IF Len(rack) <= 1 THEN 0 ELSE Len(rack) - 1
  IN [kind |-> "LeftPermutation", rack |-> rack,
      hasBlank |-> ContainsRune(rack, "?"), stack |-> <<>>,
      maxLeft |-> maxLeft, leftParts |-> [i \in 1..maxLeft |-> <<>>],
      index |-> 0, ret |-> FALSE, panic |-> FALSE]

LeftPermutationNavigator_PushEdge(lpn, chr) ==
  IF ~lpn.hasBlank /\ ~ContainsRune(lpn.rack, chr)
  THEN [lpn EXCEPT !.ret = FALSE]
  ELSE [lpn EXCEPT !.stack = Append(lpn.stack,
                       [rack |-> lpn.rack, index |-> lpn.index]),
                   !.ret = TRUE]

\* The rack and the index are restored from the stack; hasBlank is not.
\* Indexing an empty stack panics.
LeftPermutationNavigator_PopEdge(lpn) ==
  LET last == Len(lpn.stack)
  IN IF last = 0 THEN [lpn EXCEPT !.panic = TRUE, !.ret = TRUE] ELSE
     [lpn EXCEPT !.rack = lpn.stack[last].rack,
                 !.index = lpn.stack[last].index,
                 !.stack = SubSeq(lpn.stack, 1, last - 1),
                 !.ret = TRUE]

LeftPermutationNavigator_IsAccepting(lpn) == lpn.index < lpn.maxLeft

LeftPermutationNavigator_Accepts(lpn, chr) ==
  LET exactMatch == ContainsRune(lpn.rack, chr)
  IN IF ~exactMatch /\ ~lpn.hasBlank
     THEN [lpn EXCEPT !.ret = FALSE]
     ELSE IF exactMatch
          THEN [lpn EXCEPT !.index = lpn.index + 1,
                           !.rack = RemoveRune(lpn.rack, chr),
                           !.ret = TRUE]
          ELSE LET r == RemoveRune(lpn.rack, "?")
               IN [lpn EXCEPT !.index = lpn.index + 1,
                              !.rack = r,
                              !.hasBlank = ContainsRune(r, "?"),
                              !.ret = TRUE]

\* lpn.leftParts[ix] panics when ix is not an index of the maxLeft buckets
LeftPermutationNavigator_Accept(lpn, matched, final, state) ==
  LET ix == Len(matched)
  IN IF ix \notin 1..lpn.maxLeft THEN [lpn EXCEPT !.panic = TRUE] ELSE
     [lpn EXCEPT !.leftParts[ix] = Append(lpn.leftParts[ix],
                     [matched |-> matched, rack |-> lpn.rack, state |-> state])]

\* ------------------------------------------------------------------------
\* The board (board.go)
\* ------------------------------------------------------------------------

WORD_MULTIPLIERS_STANDARD ==
  << <<3,1,1,1,1,1,1,3,1,1,1,1,1,1,3>>,
     <<1,2,1,1,1,1,1,1,1,1,1,1,1,2,1>>,
     <<1,1,2,1,1,1,1,1,1,1,1,1,2,1,1>>,
     <<1,1,1,2,1,1,1,1,1,1,1,2,1,1,1>>,
     <<1,1,1,1,2,1,1,1,1,1,2,1,1,1,1>>,
     <<1,1,1,1,1,1,1,1,1,1,1,1,1,1,1>>,
     <<1,1,1,1,1,1,1,1,1,1,1,1,1,1,1>>,
     <<3,1,1,1,1,1,1,2,1,1,1,1,1,1,3>>,
     <<1,1,1,1,1,1,1,1,1,1,1,1,1,1,1>>,
     <<1,1,1,1,1,1,1,1,1,1,1,1,1,1,1>>,
     <<1,1,1,1,2,1,1,1,1,1,2,1,1,1,1>>,
     <<1,1,1,2,1,1,1,1,1,1,1,2,1,1,1>>,
     <<1,1,2,1,1,1,1,1,1,1,1,1,2,1,1>>,
     <<1,2,1,1,1,1,1,1,1,1,1,1,1,2,1>>,
     <<3,1,1,1,1,1,1,3,1,1,1,1,1,1,3>> >>

LETTER_MULTIPLIERS_STANDARD ==
  << <<1,1,1,2,1,1,1,1,1,1,1,2,1,1,1>>,
     <<1,1,1,1,1,3,1,1,1,3,1,1,1,1,1>>,
     <<1,1,1,1,1,1,2,1,2,1,1,1,1,1,1>>,
     <<2,1,1,1,1,1,1,2,1,1,1,1,1,1,2>>,
     <<1,1,1,1,1,1,1,1,1,1,1,1,1,1,1>>,
     <<1,3,1,1,1,3,1,1,1,3,1,1,1,3,1>>,
     <<1,1,2,1,1,1,2,1,2,1,1,1,2,1,1>>,
     <<1,1,1,2,1,1,1,1,1,1,1,2,1,1,1>>,
     <<1,1,2,1,1,1,2,1,2,1,1,1,2,1,1>>,
     <<1,3,1,1,1,3,1,1,1,3,1,1,1,3,1>>,
     <<1,1,1,1,1,1,1,1,1,1,1,1,1,1,1>>,
     <<2,1,1,1,1,1,1,2,1,1,1,1,1,1,2>>,
     <<1,1,1,1,1,1,2,1,2,1,1,1,1,1,1>>,
     <<1,1,1,1,1,3,1,1,1,3,1,1,1,1,1>>,
     <<1,1,1,2,1,1,1,1,1,1,1,2,1,1,1>> >>

WORD_MULTIPLIERS_EXPLO ==
  << <<3,1,1,1,1,1,1,3,1,1,1,1,1,1,3>>,
     <<1,1,1,1,1,1,1,1,2,1,1,1,1,1,1>>,
     <<1,1,1,1,1,1,1,1,1,2,1,1,1,1,1>>,
     <<1,1,1,2,1,1,1,1,1,1,1,1,1,1,1>>,
     <<1,1,1,1,2,1,1,1,1,1,1,1,1,1,1>>,
     <<1,1,1,1,1,2,1,1,1,1,1,1,2,1,1>>,
     <<1,1,1,1,1,1,2,1,1,1,1,1,1,2,1>>,
     <<3,1,1,1,1,1,1,2,1,1,1,1,1,1,3>>,
     <<1,2,1,1,1,1,1,1,2,1,1,1,1,1,1>>,
     <<1,1,2,1,1,1,1,1,1,2,1,1,1,1,1>>,
     <<1,1,1,1,1,1,1,1,1,1,2,1,1,1,1>>,
     <<1,1,1,1,1,1,1,1,1,1,1,2,1,1,1>>,
     <<1,1,1,1,1,2,1,1,1,1,1,1,1,1,1>>,
     <<1,1,1,1,1,1,2,1,1,1,1,1,1,1,1>>,
     <<3,1,1,1,1,1,1,3,1,1,1,1,1,1,3>> >>

LETTER_MULTIPLIERS_EXPLO ==
  << <<1,1,1,1,2,1,1,1,1,1,1,2,1,1,1>>,
     <<1,3,1,1,1,2,1,1,1,1,1,1,1,3,1>>,
     <<1,1,2,1,1,1,3,1,1,1,1,1,2,1,1>>,
     <<1,1,1,1,1,1,1,2,1,1,3,1,1,1,2>>,
     <<2,1,1,1,1,1,1,1,1,1,1,3,1,1,1>>,
     <<1,2,1,1,1,1,1,1,1,2,1,1,1,1,1>>,
     <<1,1,3,1,1,1,1,1,2,1,1,1,1,1,1>>,
     <<1,1,1,2,1,1,1,1,1,1,1,2,1,1,1>>,
     <<1,1,1,1,1,1,2,1,1,1,1,1,3,1,1>>,
     <<1,1,1,1,1,2,1,1,1,1,1,1,1,2,1>>,
     <<1,1,1,3,1,1,1,1,1,1,1,1,1,1,2>>,
     <<2,1,1,1,3,1,1,2,1,1,1,1,1,1,1>>,
     <<1,1,2,1,1,1,1,1,3,1,1,1,2,1,1>>,
     <<1,3,1,1,1,1,1,1,1,2,1,1,1,3,1>>,
     <<1,1,1,2,1,1,1,1,1,1,2,1,1,1,1>> >>

\* A nil *Tile
NoTile == [Letter |-> ".", Meaning |-> ".", Score |-> 0, PlayedBy |-> 0]

\* Board.Init: an empty board of the given type.  Tiles maps the
\* coordinates of the occupied squares to their tiles.
Board_Init(boardType) ==
  [Type |-> boardType, Tiles |-> <<>>, NumTiles |-> 0]

\* Square.LetterMultiplier as Board.Init sets it
LetterMultiplier(board, row, col) ==
  IF board.Type = "standard" THEN LETTER_MULTIPLIERS_STANDARD[row + 1][col + 1]
  ELSE LETTER_MULTIPLIERS_EXPLO[row + 1][col + 1]

\* Square.WordMultiplier as Board.Init sets it
WordMultiplier(board, row, col) ==
  IF board.Type = "standard" THEN WORD_MULTIPLIERS_STANDARD[row + 1][col + 1]
  ELSE WORD_MULTIPLIERS_EXPLO[row + 1][col + 1]

\* A start square that is the centre of the standard board for every type
StartSquareStandard(board) == <<7, 7>>

\* Board.StartSquare
StartSquare(board) == IF board.Type = "standard" THEN <<7, 7>> ELSE <<3, 3>>

\* Board.Sq returns a non-nil square
Sq(row, col) == row >= 0 /\ row < BoardSize /\ col >= 0 /\ col < BoardSize

\* Squares[row][col].Tile of a square on the board
SqTile(board, coord) ==
  IF coord \in DOMAIN board.Tiles THEN board.Tiles[coord] ELSE NoTile

TileAt(board, row, col) ==
  IF ~Sq(row, col) THEN NoTile ELSE SqTile(board, <<row, col>>)

\* Board.PlaceTile: the board after the call and the returned value
PlaceTile(board, row, col, tile) ==
  IF ~Sq(row, col) THEN [board |-> board, ret |-> FALSE]
  ELSE [board |-> [board EXCEPT !.Tiles = (<<row, col>> :> tile) @@ board.Tiles,
                                !.NumTiles = board.NumTiles + 1],
        ret |-> TRUE]

\* Board.Adjacents[row][col][direction]; a coordinate off the board is nil
Adjacents(row, col, direction) ==
  CASE direction = ABOVE -> <<row - 1, col>>
    [] direction = BELOW -> <<row + 1, col>>
    [] direction = LEFT -> <<row, col - 1>>
    [] direction = RIGHT -> <<row, col + 1>>

\* The adjacent tiles counted to the left and to the right only
NumAdjacentTilesInRow(board, row, col) ==
  Cardinality({d \in {LEFT, RIGHT} :
                 LET a == Adjacents(row, col, d)
                 IN Sq(a[1], a[2]) /\ SqTile(board, a) # NoTile})

\* Board.NumAdjacentTiles
NumAdjacentTiles(board, row, col) ==
  Cardinality({d \in {ABOVE, LEFT, RIGHT, BELOW} :
                 LET a == Adjacents(row, col, d)
                 IN Sq(a[1], a[2]) /\ SqTile(board, a) # NoTile})

RECURSIVE FragmentFrom(_, _, _, _)
FragmentFrom(board, row, col, direction) ==
  LET a == Adjacents(row, col, direction)
  IN IF ~Sq(a[1], a[2]) \/ SqTile(board, a) = NoTile THEN <<>>
     ELSE <<SqTile(board, a)>> \o FragmentFrom(board, a[1], a[2], direction)

Fragment(board, row, col, direction) ==
  IF row < 0 \/ col < 0 \/ row >= BoardSize \/ col >= BoardSize THEN <<>>
  ELSE IF direction < ABOVE \/ direction > BELOW THEN <<>>
  ELSE FragmentFrom(board, row, col, direction)

Meanings(frag) == [i \in 1..Len(frag) |-> frag[i].Meaning]

WordFragment(board, row, col, direction) ==
  LET frag == Fragment(board, row, col, direction)
  IN IF direction = LEFT \/ direction = ABOVE
     THEN Reverse(Meanings(frag))
     ELSE Meanings(frag)

\* The cross score that leaves out the tiles after the square
CrossScoreBefore(board, row, col, horizontal) ==
  LET f1 == Fragment(board, row, col, IF horizontal THEN LEFT ELSE ABOVE)
      f2 == Fragment(board, row, col, IF horizontal THEN RIGHT ELSE BELOW)
  IN [hasCrossing |-> Len(f1) + Len(f2) > 0,
      score |-> SeqSum([i \in 1..Len(f1) |-> f1[i].Score])]

\* Board.CrossScore
CrossScore(board, row, col, horizontal) ==
  LET f1 == Fragment(board, row, col, IF horizontal THEN LEFT ELSE ABOVE)
      f2 == Fragment(board, row, col, IF horizontal THEN RIGHT ELSE BELOW)
  IN [hasCrossing |-> Len(f1) + Len(f2) > 0,
      score |-> SeqSum([i \in 1..Len(f1) |-> f1[i].Score])
                + SeqSum([i \in 1..Len(f2) |-> f2[i].Score])]

CrossWords(board, row, col, horizontal) ==
  [left |-> Reverse(Meanings(
              Fragment(board, row, col, IF horizontal THEN LEFT ELSE ABOVE))),
   right |-> Meanings(
              Fragment(board, row, col, IF horizontal THEN RIGHT ELSE BELOW))]

\* ------------------------------------------------------------------------
\* Tile moves: construction (move.go)
\* ------------------------------------------------------------------------

IllegalMoveWord == <<"[", "?", "?", "?", "]">>

\* A nil *int
NoScore == <<>>

SetMin(S) == CHOOSE x \in S : \A y \in S : x <= y

SetMax(S) == CHOOSE x \in S : \A y \in S : x >= y

\* The loop of TileMove.Init that collects the word from the top left to
\* the bottom right cover; ok is FALSE where Init sets IllegalMoveWord.
RECURSIVE InitWord(_, _, _, _, _, _, _)
InitWord(board, covers, row, col, bottom, right, direction) ==
  LET covered == <<row, col>> \in DOMAIN covers
      cover == covers[<<row, col>>]
      tile == SqTile(board, <<row, col>>)
      here == IF covered
              THEN (IF cover.Letter = "?" THEN <<"?">> ELSE <<>>) \o <<cover.Meaning>>
              ELSE <<tile.Meaning>>
      next == Adjacents(row, col, direction)
  IN IF ~covered /\ tile = NoTile THEN [ok |-> FALSE, word |-> <<>>]
     ELSE IF row = bottom /\ col = right THEN [ok |-> TRUE, word |-> here]
     ELSE IF ~Sq(next[1], next[2]) THEN [ok |-> FALSE, word |-> <<>>]
     ELSE LET rest == InitWord(board, covers, next[1], next[2], bottom, right, direction)
          IN [ok |-> rest.ok, word |-> here \o rest.word]

\* TileMove.Init; covers is a function from coordinates to Cover records
TileMove_Init(board, covers, validateWords) ==
  LET D == DOMAIN covers
      top == SetMin({c[1] : c \in D} \cup {BoardSize})
      left == SetMin({c[2] : c \in D} \cup {BoardSize})
      bottom == SetMax({c[1] : c \in D} \cup {-1})
      right == SetMax({c[2] : c \in D} \cup {-1})
      hcross == Len(Fragment(board, top, left, LEFT))
                + Len(Fragment(board, top, left, RIGHT))
      vcross == Len(Fragment(board, top, left, ABOVE))
                + Len(Fragment(board, top, left, BELOW))
      base(horizontal) ==
        [kind |-> "Tile", TopLeft |-> <<top, left>>,
         BottomRight |-> <<bottom, right>>, PrefixLength |-> 0,
         Covers |-> covers, Horizontal |-> horizontal,
         Word |-> IllegalMoveWord, CachedScore |-> NoScore,
         ValidateWords |-> validateWords]
      withWord(m, prefix, body, direction) ==
        IF ~body.ok THEN [m EXCEPT !.PrefixLength = Len(prefix)]
        ELSE [m EXCEPT !.PrefixLength = Len(prefix),
                       !.Word = prefix \o body.word
                                \o WordFragment(board, bottom, right, direction)]
      along(m, direction, reverse) ==
        IF ~Sq(top, left) THEN m
        ELSE withWord(m, WordFragment(board, top, left, reverse),
                      InitWord(board, covers, top, left, bottom, right, direction),
                      direction)
      init(horizontal) ==
        along(base(horizontal), IF horizontal THEN RIGHT ELSE BELOW,
              IF horizontal THEN LEFT ELSE ABOVE)
  IN init(IF Cardinality(D) >= 2 THEN top = bottom ELSE hcross >= vcross)

NewTileMove(board, covers) == TileMove_Init(board, covers, TRUE)

NewUncheckedTileMove(board, covers) == TileMove_Init(board, covers, FALSE)

\* ------------------------------------------------------------------------
\* ExtendRightNavigator (movegen.go).  An axis is a record; axis.sq[i+1] is
\* the coordinate of the i-th square of the axis.
\* ------------------------------------------------------------------------

\* The indices of the squares of an axis
OnAxis(index) == index >= 0 /\ index < BoardSize

\* Axis.Allows
Allows(axis, index, letter) ==
  IF SqTile(axis.board, axis.sq[index + 1]) # NoTile THEN FALSE
  ELSE Member(letter, axis.crossCheck[index + 1])

\* MakeRackTiles: the map of tile counts, its keys the runes of the rack
MakeRackTiles(rack) ==
  [r \in Range(rack) |-> Cardinality({i \in 1..Len(rack) : rack[i] = r})]

RackTiles_ContainsTile(rt, t) == t \in DOMAIN rt /\ rt[t] > 0

\* A RemoveTile that leaves the tile in the rack
RackTiles_RemoveTileNot(rt, t) == rt

RackTiles_RemoveTile(rt, t) ==
  IF t \in DOMAIN rt THEN [rt EXCEPT ![t] = rt[t] - 1] ELSE rt

ExtendRightNavigator_Init(axis, anchor, rack) ==
  [kind |-> "ExtendRight", axis |-> axis, anchor |-> anchor, index |-> anchor,
   rack |-> rack, stack |-> <<>>, lastCheck |-> 0,
   wildcardInRack |-> ContainsRune(rack, "?"), moves |-> <<>>, ret |-> FALSE,
   panic |-> FALSE]

\* ExtendRightNavigator.check (TEST_MODE unset)
ExtendRightNavigator_check(ern, letter) ==
  LET tileAtSq == SqTile(ern.axis.board, ern.axis.sq[ern.index + 1])
  IN IF tileAtSq # NoTile
     THEN (IF letter = tileAtSq.Meaning THEN mBoardTile ELSE mNo)
     ELSE IF ~ern.wildcardInRack /\ ~ContainsRune(ern.rack, letter) THEN mNo
     ELSE IF Allows(ern.axis, ern.index, letter) THEN mRackTile
     ELSE mNo

\* axis.sq[ern.index] in check panics when the index is off the axis
ExtendRightNavigator_PushEdge(ern, letter) ==
  LET c == ExtendRightNavigator_check(ern, letter)
  IN IF ~OnAxis(ern.index) THEN [ern EXCEPT !.panic = TRUE, !.ret = FALSE]
     ELSE IF c = mNo THEN [ern EXCEPT !.lastCheck = c, !.ret = FALSE]
     ELSE [ern EXCEPT !.lastCheck = c,
                      !.stack = Append(ern.stack,
                          [rack |-> ern.rack, index |-> ern.index,
                           wildcardInRack |-> ern.wildcardInRack]),
                      !.ret = TRUE]

ExtendRightNavigator_PopEdge(ern) ==
  LET last == Len(ern.stack)
      sp == ern.stack[last]
  IN IF last = 0 THEN [ern EXCEPT !.panic = TRUE, !.ret = TRUE] ELSE
     [ern EXCEPT !.rack = sp.rack, !.index = sp.index,
                 !.wildcardInRack = sp.wildcardInRack,
                 !.stack = SubSeq(ern.stack, 1, last - 1), !.ret = TRUE]

\* An IsAccepting that goes on past the last square of the axis
ExtendRightNavigator_IsAcceptingOffBoard(ern) ==
  Len(ern.rack) > 0 \/ TRUE

\* axis.sq[ern.index] != nil compares the square pointer, which is never nil
ExtendRightNavigator_IsAccepting(ern) ==
  IF ern.index >= BoardSize THEN FALSE
  ELSE Len(ern.rack) > 0 \/ TRUE

ExtendRightNavigator_Accepts(ern, letter) ==
  LET match == IF ern.lastCheck = 0 THEN ExtendRightNavigator_check(ern, letter)
               ELSE ern.lastCheck
      r == IF ContainsRune(ern.rack, letter) THEN RemoveRune(ern.rack, letter)
           ELSE RemoveRune(ern.rack, "?")
  IN IF ern.lastCheck = 0 /\ ~OnAxis(ern.index)
     THEN [ern EXCEPT !.panic = TRUE, !.ret = FALSE]
     ELSE IF match = mNo THEN [ern EXCEPT !.lastCheck = 0, !.ret = FALSE]
     ELSE IF match = mRackTile
     THEN [ern EXCEPT !.lastCheck = 0, !.index = ern.index + 1, !.rack = r,
                      !.wildcardInRack = ContainsRune(r, "?"), !.ret = TRUE]
     ELSE [ern EXCEPT !.lastCheck = 0, !.index = ern.index + 1, !.ret = TRUE]

\* The loop of ExtendRightNavigator.Accept that builds the covers
RECURSIVE AcceptCovers(_, _, _, _, _, _)
AcceptCovers(axis, start, matched, i, rack, covers) ==
  IF i > Len(matched) THEN covers
  ELSE LET coord == axis.sq[start + i]
           meaning == matched[i]
       IN IF SqTile(axis.board, coord) # NoTile
          THEN AcceptCovers(axis, start, matched, i + 1, rack, covers)
          ELSE IF RackTiles_ContainsTile(rack, meaning)
          THEN AcceptCovers(axis, start, matched, i + 1,
                            RackTiles_RemoveTile(rack, meaning),
                            (coord :> [Letter |-> meaning, Meaning |-> meaning]) @@ covers)
          ELSE AcceptCovers(axis, start, matched, i + 1,
                            RackTiles_RemoveTile(rack, "?"),
                            (coord :> [Letter |-> "?", Meaning |-> meaning]) @@ covers)

\* ExtendRightNavigator.Accept; it panics when it is handed a state, and
\* when the word would start before the first square of the axis
ExtendRightNavigator_Accept(ern, matched, final, state) ==
  IF state # NilState \/ (final /\ Len(matched) >= 2 /\ ~OnAxis(ern.index - Len(matched)))
  THEN [ern EXCEPT !.panic = TRUE]
  ELSE IF ~final \/ (ern.index < BoardSize
                /\ SqTile(ern.axis.board, ern.axis.sq[ern.index + 1]) # NoTile)
  THEN ern
  ELSE IF Len(matched) < 2 THEN ern
  ELSE LET start == ern.index - Len(matched)
           covers == AcceptCovers(ern.axis, start, matched, 1,
                                  MakeRackTiles(ern.axis.rack), <<>>)
       IN [ern EXCEPT !.moves = Append(ern.moves,
                          NewUncheckedTileMove(ern.axis.board, covers))]

\* ------------------------------------------------------------------------
\* The Navigator interface and the navigation engine (navigators.go)
\* ------------------------------------------------------------------------

PushEdge(nv, chr) ==
  CASE nv.kind = "Find" -> FindNavigator_PushEdge(nv, chr)
    [] nv.kind = "Match" -> MatchNavigator_PushEdge(nv, chr)
    [] nv.kind = "Permutation" -> PermutationNavigator_PushEdge(nv, chr)
    [] nv.kind = "LeftFind" -> LeftFindNavigator_PushEdge(nv, chr)
    [] nv.kind = "LeftPermutation" -> LeftPermutationNavigator_PushEdge(nv, chr)
    [] nv.kind = "ExtendRight" -> ExtendRightNavigator_PushEdge(nv, chr)

PopEdge(nv) ==
  CASE nv.kind = "Find" -> FindNavigator_PopEdge(nv)
    [] nv.kind = "Match" -> MatchNavigator_PopEdge(nv)
    [] nv.kind = "Permutation" -> PermutationNavigator_PopEdge(nv)
    [] nv.kind = "LeftFind" -> LeftFindNavigator_PopEdge(nv)
    [] nv.kind = "LeftPermutation" -> LeftPermutationNavigator_PopEdge(nv)
    [] nv.kind = "ExtendRight" -> ExtendRightNavigator_PopEdge(nv)

IsAccepting(nv) ==
  CASE nv.kind = "Find" -> FindNavigator_IsAccepting(nv)
    [] nv.kind = "Match" -> MatchNavigator_IsAccepting(nv)
    [] nv.kind = "Permutation" -> PermutationNavigator_IsAccepting(nv)
    [] nv.kind = "LeftFind" -> LeftFindNavigator_IsAccepting(nv)
    [] nv.kind = "LeftPermutation" -> LeftPermutationNavigator_IsAccepting(nv)
    [] nv.kind = "ExtendRight" -> ExtendRightNavigator_IsAccepting(nv)

Accepts(nv, chr) ==
  CASE nv.kind = "Find" -> FindNavigator_Accepts(nv, chr)
    [] nv.kind = "Match" -> MatchNavigator_Accepts(nv, chr)
    [] nv.kind = "Permutation" -> PermutationNavigator_Accepts(nv, chr)
    [] nv.kind = "LeftFind" -> LeftFindNavigator_Accepts(nv, chr)
    [] nv.kind = "LeftPermutation" -> LeftPermutationNavigator_Accepts(nv, chr)
    [] nv.kind = "ExtendRight" -> ExtendRightNavigator_Accepts(nv, chr)

Accept(nv, matched, final, state) ==
  CASE nv.kind = "Find" -> FindNavigator_Accept(nv, matched, final, state)
    [] nv.kind = "Match" -> MatchNavigator_Accept(nv, matched, final, state)
    [] nv.kind = "Permutation" ->
         PermutationNavigator_Accept(nv, matched, final, state)
    [] nv.kind = "LeftFind" -> LeftFindNavigator_Accept(nv, matched, final, state)
    [] nv.kind = "LeftPermutation" ->
         LeftPermutationNavigator_Accept(nv, matched, final, state)
    [] nv.kind = "ExtendRight" ->
         ExtendRightNavigator_Accept(nv, matched, final, state)

RECURSIVE FromNodeLoop(_, _, _, _, _)
RECURSIVE FromEdge(_, _, _, _)
RECURSIVE FromEdgeLoop(_, _, _, _, _)

\* The for loop of Navigation.FromNode, from edge i (counted from 1) on
FromNodeLoop(nv, offset, matched, i, isResumable) ==
  LET iter == iterNode(offset)
      \* after the PopEdge of edge i: the next edge or the early return
      afterPop(popped) == [nv |-> popped, continue |-> popped.ret]
      \* after the PushEdge of edge i
      afterPush(pushed, state) ==
        IF pushed.ret
        THEN afterPop(PopEdge(FromEdge(pushed, state, matched, isResumable)))
        ELSE [nv |-> pushed, continue |-> TRUE]
      next(r) == IF r.continue
                 THEN FromNodeLoop(r.nv, offset, matched, i + 1, isResumable)
                 ELSE r.nv
  IN IF i > Len(iter) THEN nv
     ELSE next(afterPush(PushEdge(nv, iter[i].prefix[1]), iter[i]))

FromNode(nv, offset, matched, isResumable) ==
  FromNodeLoop(nv, offset, matched, 1, isResumable)

\* The for loop of Navigation.FromEdge with j prefix runes consumed;
\* returned is TRUE where the code returns from inside the loop.
FromEdgeLoop(nv, state, matched, j, isResumable) ==
  LET lenP == Len(state.prefix)
  IN IF ~(j < lenP /\ IsAccepting(nv))
     THEN [nv |-> nv, matched |-> matched, j |-> j, returned |-> FALSE]
     ELSE LET m == Append(matched, state.prefix[j + 1])
              j1 == j + 1
              bar == j1 < lenP /\ state.prefix[j1 + 1] = "|"
              final == IF j1 < lenP THEN bar
                       ELSE state.nextNode = 0 \/ DawgNodes[state.nextNode].final
              j2 == IF bar THEN j1 + 1 ELSE j1
              resume == IF isResumable
                        THEN [prefix |-> SubSeq(state.prefix, j2 + 1, lenP),
                              nextNode |-> state.nextNode]
                        ELSE NilState
              afterAccepts(accepted) ==
                IF ~accepted.ret
                THEN [nv |-> accepted, matched |-> matched, j |-> j,
                      returned |-> TRUE]
                ELSE FromEdgeLoop(Accept(accepted, m, final, resume),
                                  state, m, j2, isResumable)
          IN afterAccepts(Accepts(nv, state.prefix[j + 1]))

FromEdge(nv, state, alreadyMatched, isResumable) ==
  LET afterLoop(r) ==
        IF r.returned THEN r.nv
        ELSE IF r.j >= Len(state.prefix) /\ state.nextNode # 0 /\ IsAccepting(r.nv)
        THEN FromNode(r.nv, state.nextNode, r.matched, isResumable)
        ELSE r.nv
  IN afterLoop(FromEdgeLoop(nv, state, alreadyMatched, 0, isResumable))

\* Navigation.Go
Go(navigator, isResumable) ==
  IF IsAccepting(navigator) THEN FromNode(navigator, 0, <<>>, isResumable)
  ELSE navigator

\* A Resume that skips what is left of the cursor's edge
ResumeAtNode(navigator, state, matched) ==
  IF state = NilState THEN navigator
  ELSE IF IsAccepting(navigator) /\ state.nextNode # 0
  THEN FromNode(navigator, state.nextNode, matched, FALSE)
  ELSE navigator

\* Navigation.Resume (never resumable)
Resume(navigator, state, matched) ==
  IF state = NilState THEN navigator
  ELSE IF IsAccepting(navigator) THEN FromEdge(navigator, state, matched, FALSE)
  ELSE navigator

\* ------------------------------------------------------------------------
\* Dawg operations (dawg.go)
\* ------------------------------------------------------------------------

\* Dawg.Find
Find(word) == Go(FindNavigator_Init(word), FALSE).found

\* Dawg.Permute
Permute(rack, minLen) == Go(PermutationNavigator_Init(rack, minLen), FALSE).results

\* Dawg.Match
Match(pattern) == Go(MatchNavigator_Init(pattern), FALSE).results

\* FindLeftParts
FindLeftParts(rack) == Go(LeftPermutationNavigator_Init(rack), TRUE).leftParts

\* The fetchFunc collecting the first letter of every match
CrossSetFetchFirst(left, right) ==
  LET letters(matches) == [i \in 1..Len(matches) |-> matches[i][1]]
  IN MakeSet(letters(Match(left \o <<"?">> \o right)))

\* The fetchFunc of Dawg.CrossSet: the set computed from Dawg.Match
CrossSetFetch(left, right) ==
  LET letters(matches) == [i \in 1..Len(matches) |-> matches[i][Len(left) + 1]]
  IN MakeSet(letters(Match(left \o <<"?">> \o right)))

\* crossCache.Lookup over an LRU list of [key, val], most recent first:
\* a hit moves the entry to the front, a miss computes, adds and evicts the
\* oldest entry beyond CrossCacheSize.
Lookup(cache, left, right) ==
  LET key == left \o <<"?">> \o right
      hits == {i \in 1..Len(cache) : cache[i].key = key}
  IN IF hits # {}
     THEN LET i == CHOOSE h \in hits : TRUE
          IN [val |-> cache[i].val,
              cache |-> <<cache[i]>> \o SubSeq(cache, 1, i - 1)
                        \o SubSeq(cache, i + 1, Len(cache))]
     ELSE LET evict(added) == IF Len(added) > CrossCacheSize
                              THEN SubSeq(added, 1, CrossCacheSize) ELSE added
              miss(v) == [val |-> v,
                          cache |-> evict(<<[key |-> key, val |-> v]>> \o cache)]
          IN miss(CrossSetFetch(left, right))

\* Dawg.CrossSet
CrossSet(cache, left, right) == Lookup(cache, left, right)

\* The language of the DAWG: the words spelled along its edges, a word
\* ending at a '|' inside a prefix, at an edge without a next node or at
\* an edge into a node with the final bit.
RECURSIVE WordsFromNode(_)
WordsFromNode(offset) ==
  LET edges == iterNode(offset)
      letters(e) == SelectSeq(e.prefix, LAMBDA r : r # "|")
      inner(e) == {SelectSeq(SubSeq(e.prefix, 1, k - 1), LAMBDA r : r # "|") :
                     k \in {k \in 1..Len(e.prefix) : e.prefix[k] = "|"}}
      atEnd(e) == IF e.nextNode = 0 \/ DawgNodes[e.nextNode].final
                  THEN {letters(e)} ELSE {}
      beyond(e) == IF e.nextNode = 0 THEN {}
                   ELSE {letters(e) \o w : w \in WordsFromNode(e.nextNode)}
  IN UNION {inner(edges[i]) \cup atEnd(edges[i]) \cup beyond(edges[i]) :
              i \in 1..Len(edges)}

Vocabulary == WordsFromNode(0)

\* ------------------------------------------------------------------------
\* Racks (board.go)
\* ------------------------------------------------------------------------

Runes == AlphabetSet \cup {"?"}

\* Rack.AsRunes
AsRunes(rack) ==
  LET full == SelectSeq(rack.Slots, LAMBDA t : t # NoTile)
  IN [i \in 1..Len(full) |-> full[i].Letter]

\* ------------------------------------------------------------------------
\* Move generation along an axis (movegen.go)
\* ------------------------------------------------------------------------

\* Axis.crossSet for the square at coord; cache is the crossCache
Axis_crossSet(board, cache, horizontal, coord) ==
  LET cw == CrossWords(board, coord[1], coord[2], ~horizontal)
  IN IF Len(cw.left) = 0 /\ Len(cw.right) = 0
     THEN [val |-> AllBits, cache |-> cache]
     ELSE CrossSet(cache, cw.left, cw.right)

\* Axis.Init; state is a GameState with the crossCache of its Dawg
Axis_Init(state, rackSet, index, horizontal) ==
  LET board == state.Board
      startSquare == StartSquare(board)
      sq == [i \in 1..BoardSize |->
               IF horizontal THEN <<index, i - 1>> ELSE <<i - 1, index>>]
      isAnchor == [i \in 1..BoardSize |->
                     IF SqTile(board, sq[i]) # NoTile THEN FALSE
                     ELSE IF board.NumTiles = 0
                     THEN horizontal /\ index = startSquare[1]
                          /\ (i - 1) = startSquare[2]
                     ELSE NumAdjacentTiles(board, sq[i][1], sq[i][2]) > 0]
      crossCheck == [i \in 1..BoardSize |->
                       IF SqTile(board, sq[i]) # NoTile THEN {}
                       ELSE IF ~isAnchor[i] THEN rackSet
                       ELSE rackSet \cap
                            Axis_crossSet(board, state.cache, horizontal, sq[i]).val]
  IN [board |-> board, horizontal |-> horizontal, index |-> index,
      rackSet |-> rackSet, rack |-> AsRunes(state.Rack), sq |-> sq,
      crossCheck |-> crossCheck, isAnchor |-> isAnchor]

\* Axis.IsOpen
IsOpen(axis, index) ==
  SqTile(axis.board, axis.sq[index + 1]) = NoTile /\ axis.crossCheck[index + 1] # {}

Min(a, b) == IF a < b THEN a ELSE b

\* Axis.genMovesFromAnchor
genMovesFromAnchor(axis, anchor, maxLeft, leftParts) ==
  LET rack == axis.rack
      coord == axis.sq[anchor + 1]
  IN IF maxLeft = 0 /\ anchor > 0 /\ SqTile(axis.board, axis.sq[anchor]) # NoTile
     THEN LET direction == IF axis.horizontal THEN LEFT ELSE ABOVE
              fragment == Fragment(axis.board, coord[1], coord[2], direction)
              left == Reverse(Meanings(fragment))
              extend(lfn) ==
                IF lfn.state = NilState THEN <<>>
                ELSE Resume(ExtendRightNavigator_Init(axis, anchor, rack),
                            lfn.state, left).moves
          IN extend(Go(LeftFindNavigator_Init(left), TRUE))
     ELSE LET leftReach == Min(maxLeft, Len(rack) - 1)
              fromPart(leftPart) ==
                Resume(ExtendRightNavigator_Init(axis, anchor, leftPart.rack),
                       leftPart.state, leftPart.matched).moves
              fromLen(leftLen) ==
                Flatten([k \in 1..Len(leftParts[leftLen]) |->
                           fromPart(leftParts[leftLen][k])])
          IN Go(ExtendRightNavigator_Init(axis, anchor, rack), FALSE).moves
             \o Flatten([leftLen \in 1..leftReach |-> fromLen(leftLen)])

\* The number of open squares to the left of anchor i, up to but not
\* including the previous anchor
RECURSIVE OpenCnt(_, _, _)
OpenCnt(axis, left, lastAnchor) ==
  IF left > 0 /\ left > lastAnchor + 1 /\ IsOpen(axis, left - 1)
  THEN 1 + OpenCnt(axis, left - 1, lastAnchor)
  ELSE 0

\* The loop of Axis.GenerateMoves from square i on
RECURSIVE AxisMovesFrom(_, _, _, _)
AxisMovesFrom(axis, leftParts, i, lastAnchor) ==
  IF i >= BoardSize THEN <<>>
  ELSE IF ~axis.isAnchor[i + 1]
  THEN AxisMovesFrom(axis, leftParts, i + 1, lastAnchor)
  ELSE (IF axis.crossCheck[i + 1] # {}
        THEN genMovesFromAnchor(axis, i, OpenCnt(axis, i, lastAnchor), leftParts)
        ELSE <<>>)
       \o AxisMovesFrom(axis, leftParts, i + 1, i)

Axis_GenerateMoves(axis, leftParts) == AxisMovesFrom(axis, leftParts, 0, -1)

\* The work of one kickOffAxis goroutine of GameState.GenerateMoves
kickOffAxis(state, index, horizontal) ==
  LET rack == AsRunes(state.Rack)
  IN Axis_GenerateMoves(Axis_Init(state, MakeSet(rack), index, horizontal),
                        FindLeftParts(rack))

\* GameState.GenerateMoves: the move lists of the 2*BoardSize axes, here
\* concatenated in the order in which the goroutines are started
GenerateMoves(state) ==
  Flatten([k \in 1..(2 * BoardSize) |->
             kickOffAxis(state, (k - 1) \div 2, k % 2 = 1)])

\* ------------------------------------------------------------------------
\* Rack and bag operations (board.go, bag.go).  A rack is a record of its
\* Slots (RackSize tiles, NoTile for an empty slot) and its Letters map.
\* A pointer to a tile in a rack is the number of its slot, 0 for nil.
\* ------------------------------------------------------------------------

\* Rack.Init
Rack_Init == [Slots |-> [i \in 1..RackSize |-> NoTile], Letters |-> [r \in Runes |-> 0]]

\* Rack.FindTile
FindTile(rack, letter) ==
  LET found == {i \in 1..RackSize :
                  rack.Slots[i] # NoTile /\ rack.Slots[i].Letter = letter}
  IN IF found = {} THEN 0 ELSE SetMin(found)

\* Rack.FindTiles
RECURSIVE FindTilesFrom(_, _, _, _)
FindTilesFrom(rack, letters, k, picked) ==
  IF k > Len(letters) THEN <<>>
  ELSE LET found == {i \in (1..RackSize) \ picked :
                       rack.Slots[i] # NoTile /\ rack.Slots[i].Letter = letters[k]}
       IN IF found = {} THEN FindTilesFrom(rack, letters, k + 1, picked)
          ELSE <<SetMin(found)>>
               \o FindTilesFrom(rack, letters, k + 1, picked \cup {SetMin(found)})

FindTiles(rack, letters) == FindTilesFrom(rack, letters, 1, {})

\* Rack.IsEmpty
IsEmpty(rack) == \A i \in 1..RackSize : rack.Slots[i] = NoTile

\* Rack.RemoveTile of the tile in the given slot
RemoveTile(rack, slot) ==
  IF slot = 0 \/ rack.Slots[slot] = NoTile THEN [rack |-> rack, ret |-> FALSE]
  ELSE [rack |-> [rack EXCEPT !.Slots[slot] = NoTile,
                              !.Letters[rack.Slots[slot].Letter] = @ - 1],
        ret |-> TRUE]

\* Rack.Fill from slot i on: the set of outcomes [rack, bag, ret], one for
\* every choice Bag.DrawTile can make
RECURSIVE FillFrom(_, _, _)
FillFrom(rack, bag, i) ==
  IF i > RackSize THEN {[rack |-> rack, bag |-> bag, ret |-> TRUE]}
  ELSE IF rack.Slots[i] # NoTile
  THEN FillFrom([rack EXCEPT !.Letters[rack.Slots[i].Letter] = @ + 1], bag, i + 1)
  ELSE IF Len(bag) = 0 THEN {[rack |-> rack, bag |-> bag, ret |-> FALSE]}
  ELSE UNION {FillFrom([rack EXCEPT !.Slots[i] = bag[k],
                                    !.Letters[bag[k].Letter] = @ + 1],
                       SubSeq(bag, 1, k - 1) \o SubSeq(bag, k + 1, Len(bag)),
                       i + 1) : k \in 1..Len(bag)}

Fill(rack, bag) == FillFrom(rack, bag, 1)

\* Bag.DrawTileByLetter: the index of the drawn tile in the bag, 0 for nil
DrawTileByLetter(bag, letter) ==
  LET found == {i \in 1..Len(bag) : bag[i].Letter = letter}
  IN IF found = {} THEN 0 ELSE SetMin(found)

\* Rack.FillByLetters from slot i on: [rack, bag, ret]
RECURSIVE FillByLettersFrom(_, _, _, _)
FillByLettersFrom(rack, bag, letters, i) ==
  IF ~(i <= RackSize /\ Len(letters) > 0)
  THEN [rack |-> rack, bag |-> bag, ret |-> TRUE]
  ELSE IF rack.Slots[i] # NoTile
  THEN FillByLettersFrom([rack EXCEPT !.Letters[rack.Slots[i].Letter] = @ + 1],
                         bag, letters, i + 1)
  ELSE LET k == DrawTileByLetter(bag, letters[1])
       IN IF k = 0 THEN [rack |-> rack, bag |-> bag, ret |-> FALSE]
          ELSE FillByLettersFrom(
                 [rack EXCEPT !.Slots[i] = bag[k], !.Letters[bag[k].Letter] = @ + 1],
                 SubSeq(bag, 1, k - 1) \o SubSeq(bag, k + 1, Len(bag)),
                 Tail(letters), i + 1)

FillByLetters(rack, bag, letters) == FillByLettersFrom(rack, bag, letters, 1)

\* ------------------------------------------------------------------------
\* Tile moves: validation, application and scoring (move.go), and the game
\* (game.go).  A game is a record of its Board, Racks, Bag, MoveList,
\* Scores, NumPassMoves and ValidateWords.
\* ------------------------------------------------------------------------

\* Scores that give the blank tile a point
TileSetScoresBlankOne == [r \in Runes |-> CASE r = "a" -> 1 [] r = "b" -> 3
                                            [] r = "c" -> 2 [] r = "?" -> 1]

\* TileSet.Scores of the model tile set
TileSetScores == [r \in Runes |-> CASE r = "a" -> 1 [] r = "b" -> 3
                                    [] r = "c" -> 2 [] r = "?" -> 0]

\* Game.PlayerToMove
PlayerToMove(game) == Len(game.MoveList) % 2

\* TileMove.CleanWord
CleanWord(move) == SelectSeq(move.Word, LAMBDA r : r # "?")

\* TileMove.ValidateWord
ValidateWord(move) == Find(CleanWord(move))

\* The sum of Board.NumAdjacentTiles over a set of coordinates
RECURSIVE SumAdjacentTiles(_, _)
SumAdjacentTiles(board, D) ==
  IF D = {} THEN 0
  ELSE LET c == CHOOSE x \in D : TRUE
       IN NumAdjacentTiles(board, c[1], c[2]) + SumAdjacentTiles(board, D \ {c})

\* The checks of TileMove.IsValid that precede the ValidateWords test
IsValidPlacement(move, game) ==
  LET board == game.Board
      D == DOMAIN move.Covers
      inside == \A c \in D : Sq(c[1], c[2]) /\ TileAt(board, c[1], c[2]) = NoTile
      numAdjacentTiles == SumAdjacentTiles(board, D)
      top == move.TopLeft[1]
      left == move.TopLeft[2]
      bottom == move.BottomRight[1]
      right == move.BottomRight[2]
      noGaps == IF move.Horizontal
                THEN \A i \in left..right :
                       <<top, i>> \in D \/ TileAt(board, top, i) # NoTile
                ELSE \A i \in top..bottom :
                       <<i, left>> \in D \/ TileAt(board, i, left) # NoTile
  IN /\ Cardinality(D) >= 1
     /\ Cardinality(D) <= RackSize
     /\ inside
     /\ ~(bottom > top /\ right > left)
     /\ noGaps
     /\ IF board.NumTiles = 0 THEN StartSquare(board) \in D
        ELSE numAdjacentTiles # 0

\* The cross-word loop of TileMove.IsValid: the fragments are read at
\* (coord.Col, coord.Row)
CrossWordsValid(move, game) ==
  \A coord \in DOMAIN move.Covers :
    LET cw == CrossWords(game.Board, coord[2], coord[1], ~move.Horizontal)
    IN (Len(cw.left) > 0 \/ Len(cw.right) > 0)
         => Find(cw.left \o <<move.Covers[coord].Meaning>> \o cw.right)

\* TileMove.IsValid
IsValid(move, game) ==
  IF ~IsValidPlacement(move, game) THEN FALSE
  ELSE IF ~move.ValidateWords THEN TRUE
  ELSE IF move.Word = IllegalMoveWord \/ move.Word = <<>> THEN FALSE
  ELSE IF ~ValidateWord(move) THEN FALSE
  ELSE CrossWordsValid(move, game)

\* Game.PlayTile of the tile in the given slot of the rack of the player
\* to move: the game after the call and the returned value
PlayTile(game, slot, row, col) ==
  LET playerToMove == PlayerToMove(game)
      rack == game.Racks[playerToMove + 1]
      tile == rack.Slots[slot]
      removed == RemoveTile(rack, slot)
      g1 == [game EXCEPT !.Racks[playerToMove + 1] = removed.rack]
      played == [tile EXCEPT !.Meaning = IF tile.Letter # "?" THEN tile.Letter
                                         ELSE tile.Meaning,
                             !.PlayedBy = playerToMove]
      placed == PlaceTile(g1.Board, row, col, played)
  IN IF ~Sq(row, col) \/ SqTile(game.Board, <<row, col>>) # NoTile
     THEN [game |-> game, ret |-> FALSE]
     ELSE IF ~removed.ret THEN [game |-> game, ret |-> FALSE]
     ELSE IF tile.Meaning = "?" THEN [game |-> g1, ret |-> FALSE]
     ELSE [game |-> [g1 EXCEPT !.Board = placed.board], ret |-> placed.ret]

\* The loop of TileMove.Apply over the covers, visited in the given order
RECURSIVE ApplyCovers(_, _, _, _)
ApplyCovers(game, move, order, k) ==
  IF k > Len(order) THEN [game |-> [game EXCEPT !.NumPassMoves = 0], ret |-> TRUE]
  ELSE LET coord == order[k]
           cover == move.Covers[coord]
           p == PlayerToMove(game) + 1
           slot == FindTile(game.Racks[p], cover.Letter)
           g1 == [game EXCEPT !.Racks[p].Slots[slot].Meaning =
                                IF cover.Letter = "?" THEN cover.Meaning
                                ELSE cover.Letter]
           played == PlayTile(g1, slot, coord[1], coord[2])
       IN IF slot = 0 THEN [game |-> game, ret |-> FALSE]
          ELSE IF ~played.ret THEN [game |-> played.game, ret |-> FALSE]
          ELSE ApplyCovers(played.game, move, order, k + 1)

\* TileMove.Apply; order is the order in which the range loop visits the
\* Covers map
TileMove_Apply(game, move, order) == ApplyCovers(game, move, order, 1)

\* The loop of TileMove.Score from the top left to the bottom right:
\* the letter score, the word multiplier and the cross scores
RECURSIVE ScoreWalk(_, _, _, _)
ScoreWalk(move, board, row, col) ==
  IF ~Sq(row, col) THEN [score |-> 0, multiplier |-> 1, crossScore |-> 0]
  ELSE LET covered == <<row, col>> \in DOMAIN move.Covers
           thisScore == TileSetScores[move.Covers[<<row, col>>].Letter]
                        * LetterMultiplier(board, row, col)
           crossing(cs) == IF cs.hasCrossing
                           THEN (cs.score + thisScore)
                                * WordMultiplier(board, row, col)
                           ELSE 0
           here == IF covered
                   THEN [score |-> thisScore,
                         multiplier |-> WordMultiplier(board, row, col),
                         crossScore |->
                           crossing(CrossScore(board, row, col, ~move.Horizontal))]
                   ELSE [score |-> SqTile(board, <<row, col>>).Score,
                         multiplier |-> 1, crossScore |-> 0]
           add(h, rest) == [score |-> h.score + rest.score,
                            multiplier |-> h.multiplier * rest.multiplier,
                            crossScore |-> h.crossScore + rest.crossScore]
       IN add(here,
              IF row >= move.BottomRight[1] /\ col >= move.BottomRight[2]
              THEN [score |-> 0, multiplier |-> 1, crossScore |-> 0]
              ELSE ScoreWalk(move, board,
                             row + (IF move.Horizontal THEN 0 ELSE 1),
                             col + (IF move.Horizontal THEN 1 ELSE 0)))

\* TileMove.Score without the cache
ComputeScore(move, board) ==
  LET scores(frag) == SeqSum([i \in 1..Len(frag) |-> frag[i].Score])
      before == scores(Fragment(board, move.TopLeft[1], move.TopLeft[2],
                                IF move.Horizontal THEN LEFT ELSE ABOVE))
      after == scores(Fragment(board, move.BottomRight[1], move.BottomRight[2],
                               IF move.Horizontal THEN RIGHT ELSE BELOW))
      total(walk) ==
        (before + walk.score + after) * walk.multiplier + walk.crossScore
        + (IF Cardinality(DOMAIN move.Covers) = RackSize THEN BingoBonus ELSE 0)
  IN total(ScoreWalk(move, board, move.TopLeft[1], move.TopLeft[2]))

\* TileMove.Score: the returned score and the move with its CachedScore
Score(move, board) ==
  IF move.CachedScore # NoScore
  THEN [score |-> move.CachedScore[1], move |-> move]
  ELSE LET cached(score) ==
             [score |-> score, move |-> [move EXCEPT !.CachedScore = <<score>>]]
       IN cached(ComputeScore(move, board))

\* NewPassMove
NewPassMove == [kind |-> "Pass"]

\* A pass that is not counted as a zero-point move
PassMove_ApplyUncounted(game) ==
  [game |-> game, ret |-> TRUE]

\* PassMove.Apply
PassMove_Apply(game) ==
  [game |-> [game EXCEPT !.NumPassMoves = @ + 1], ret |-> TRUE]

\* NewExchangeMove
NewExchangeMove(letters) == [kind |-> "Exchange", Letters |-> letters]

\* Bag.ExchangeAllowed
ExchangeAllowed(bag) == Len(bag) >= RackSize

\* The loop of ExchangeMove.IsValid over the letters from the i-th on;
\* rack is what is left of the rack string
RECURSIVE ExchangeLettersInRack(_, _, _)
ExchangeLettersInRack(runes, rack, i) ==
  IF i > Len(runes) THEN TRUE
  ELSE IF ~ContainsRune(rack, runes[i]) THEN FALSE
  ELSE ExchangeLettersInRack(runes, RemoveRune(rack, runes[i]), i + 1)

\* An IsValid that looks for each letter in the whole rack
ExchangeMove_IsValidAnyLetter(move, game) ==
  IF ~ExchangeAllowed(game.Bag) THEN FALSE
  ELSE IF Len(move.Letters) < 1 \/ Len(move.Letters) > RackSize THEN FALSE
  ELSE \A i \in 1..Len(move.Letters) :
         ContainsRune(AsRunes(game.Racks[PlayerToMove(game) + 1]), move.Letters[i])

\* ExchangeMove.IsValid
ExchangeMove_IsValid(move, game) ==
  IF ~ExchangeAllowed(game.Bag) THEN FALSE
  ELSE IF Len(move.Letters) < 1 \/ Len(move.Letters) > RackSize THEN FALSE
  ELSE ExchangeLettersInRack(move.Letters,
                             AsRunes(game.Racks[PlayerToMove(game) + 1]), 1)

\* The first loop of ExchangeMove.Apply: the tiles of the letters from the
\* i-th on leave the rack; ok is FALSE where a tile is not found
RECURSIVE ExchangeRemove(_, _, _, _)
ExchangeRemove(rack, letters, i, tiles) ==
  IF i > Len(letters) THEN [rack |-> rack, tiles |-> tiles, ok |-> TRUE]
  ELSE LET slot == FindTile(rack, letters[i])
       IN IF slot = 0 THEN [rack |-> rack, tiles |-> tiles, ok |-> FALSE]
          ELSE ExchangeRemove(RemoveTile(rack, slot).rack, letters, i + 1,
                              Append(tiles, rack.Slots[slot]))

\* ExchangeMove.Apply: the set of outcomes [game, ret], one for every
\* choice of tiles that Rack.Fill can draw; the exchanged tiles return to
\* the bag after the rack has been filled
ExchangeMove_Apply(game, move) ==
  LET p == PlayerToMove(game) + 1
      filled(removed, f) ==
        [game |-> [game EXCEPT !.Racks[p] = f.rack,
                               !.Bag = f.bag \o removed.tiles,
                               !.NumPassMoves = @ + 1],
         ret |-> TRUE]
      after(removed) ==
        IF ~removed.ok
        THEN {[game |-> [game EXCEPT !.Racks[p] = removed.rack], ret |-> FALSE]}
        ELSE {filled(removed, f) : f \in Fill(removed.rack, game.Bag)}
  IN after(ExchangeRemove(game.Racks[p], move.Letters, 1, <<>>))

\* Move.IsValid of a move of any kind
Move_IsValid(move, game) ==
  CASE move.kind = "Tile" -> IsValid(move, game)
    [] move.kind = "Exchange" -> ExchangeMove_IsValid(move, game)
    [] OTHER -> TRUE

\* Move.Apply of a move of any kind: the set of outcomes [game, ret]
Move_Apply(game, move, order) ==
  CASE move.kind = "Tile" -> {TileMove_Apply(game, move, order)}
    [] move.kind = "Pass" -> {PassMove_Apply(game)}
    [] move.kind = "Exchange" -> ExchangeMove_Apply(game, move)
    [] OTHER -> {[game |-> game, ret |-> TRUE]}

\* FinalMove.Score
FinalMove_Score(move) ==
  SeqSum([i \in 1..Len(move.OpponentRack) |-> TileSetScores[move.OpponentRack[i]]])
  * move.MultiplyFactor

NewFinalMove(rackOpp, multiplyFactor) ==
  [kind |-> "Final", OpponentRack |-> rackOpp, MultiplyFactor |-> multiplyFactor]

\* Game.acceptMove
acceptMove(game, rackBefore, move) ==
  LET p == PlayerToMove(game) + 1
      append(scored) ==
        [game EXCEPT !.Scores[p] = @ + scored.score,
                     !.MoveList = Append(@, [RackBefore |-> rackBefore,
                                             Move |-> scored.move])]
  IN append(IF move.kind = "Tile" THEN Score(move, game.Board)
            ELSE IF move.kind = "Final"
            THEN [score |-> FinalMove_Score(move), move |-> move]
            ELSE [score |-> 0, move |-> move])

\* Game.IsOver
IsOver(game) ==
  LET ix == Len(game.MoveList)
  IN IF ix = 0 THEN FALSE
     ELSE IF game.NumPassMoves = 6 THEN TRUE
     ELSE IsEmpty(game.Racks[(1 - (ix % 2)) + 1])

\* An end of ApplyValid that adds the final move of the opponent only
AddFinalMovesOpponent(game, playerToMove) ==
  LET rackThis == AsRunes(game.Racks[playerToMove + 1])
      rackOpp == AsRunes(game.Racks[(1 - playerToMove) + 1])
      multiplyFactor == IF Len(rackThis) > 0 THEN 1 ELSE 2
  IN acceptMove(game, rackOpp, NewFinalMove(rackThis, multiplyFactor))

\* The end of Game.ApplyValid: the two FinalMoves of a finished game
AddFinalMoves(game, playerToMove) ==
  LET rackThis == AsRunes(game.Racks[playerToMove + 1])
      rackOpp == AsRunes(game.Racks[(1 - playerToMove) + 1])
      multiplyFactor == IF Len(rackThis) > 0 THEN 1 ELSE 2
  IN acceptMove(acceptMove(game, rackOpp, NewFinalMove(rackThis, multiplyFactor)),
                rackThis, NewFinalMove(rackOpp, multiplyFactor))

\* Game.ApplyValid: the set of outcomes [game, ret], one for every choice
\* of tiles that Rack.Fill can draw
ApplyValid(game, move, order) ==
  LET playerToMove == PlayerToMove(game)
      rackBefore == AsRunes(game.Racks[playerToMove + 1])
      refill(accepted, f) == [accepted EXCEPT !.Racks[playerToMove + 1] = f.rack,
                                              !.Bag = f.bag]
      finish(g) == IF IsOver(g) THEN AddFinalMoves(g, playerToMove) ELSE g
      draw(accepted) ==
        {[game |-> finish(refill(accepted, f)), ret |-> TRUE] :
           f \in Fill(accepted.Racks[playerToMove + 1], accepted.Bag)}
      afterApply(applied) ==
        IF ~applied.ret THEN {[game |-> applied.game, ret |-> FALSE]}
        ELSE draw(acceptMove(applied.game, rackBefore, move))
  IN UNION {afterApply(applied) : applied \in Move_Apply(game, move, order)}

\* The coordinates of D in reading order
RECURSIVE ReadingOrder(_)
ReadingOrder(D) ==
  IF D = {} THEN <<>>
  ELSE LET c == CHOOSE x \in D : \A y \in D :
                  x[1] < y[1] \/ (x[1] = y[1] /\ x[2] <= y[2])
       IN <<c>> \o ReadingOrder(D \ {c})

\* The orders in which a range loop over a Covers map with keys D may
\* visit them: every order for up to MaxPermCovers keys, beyond that the
\* reading order and its reverse
CoverOrders(D) ==
  IF Cardinality(D) <= MaxPermCovers
  THEN {f \in [1..Cardinality(D) -> D] :
          \A x, y \in 1..Cardinality(D) : x # y => f[x] # f[y]}
  ELSE {ReadingOrder(D), Reverse(ReadingOrder(D))}

\* Game.Apply: the set of outcomes [game, ret]
Apply(game, move) ==
  IF ~Move_IsValid(move, game) THEN {[game |-> game, ret |-> FALSE]}
  ELSE UNION {ApplyValid(game, move, order) :
                order \in (IF move.kind = "Tile" THEN CoverOrders(DOMAIN move.Covers)
                           ELSE {<<>>})}

\* The loop of Game.MakeTileMove that lays the tiles k.. along the line,
\* skipping occupied squares; ok is FALSE where it runs off the board
RECURSIVE MakeCovers(_, _, _, _, _, _, _)
MakeCovers(game, row, col, horizontal, tiles, k, covers) ==
  IF k > Len(tiles) THEN [ok |-> TRUE, covers |-> covers]
  ELSE IF row >= BoardSize \/ col >= BoardSize THEN [ok |-> FALSE, covers |-> covers]
  ELSE IF TileAt(game.Board, row, col) # NoTile
  THEN MakeCovers(game, row + (IF horizontal THEN 0 ELSE 1),
                  col + (IF horizontal THEN 1 ELSE 0), horizontal, tiles, k, covers)
  ELSE LET tile == game.Racks[PlayerToMove(game) + 1].Slots[tiles[k].slot]
       IN MakeCovers(game, row + (IF horizontal THEN 0 ELSE 1),
                     col + (IF horizontal THEN 1 ELSE 0), horizontal, tiles, k + 1,
                     (<<row, col>> :> [Letter |-> tile.Letter,
                                       Meaning |-> tile.Meaning]) @@ covers)

\* Game.MakeTileMove; a tile pointer is a record of the rack (player) and
\* the slot that holds the tile.  The set of outcomes [game, ret].
MakeTileMove(game, row, col, horizontal, tiles) ==
  LET p == PlayerToMove(game)
      made == MakeCovers(game, row, col, horizontal, tiles, 1, <<>>)
      move == IF game.ValidateWords THEN NewTileMove(game.Board, made.covers)
              ELSE NewUncheckedTileMove(game.Board, made.covers)
  IN IF row < 0 \/ row >= BoardSize \/ col < 0 \/ col >= BoardSize
        \/ Len(tiles) < 1 \/ Len(tiles) > RackSize
     THEN {[game |-> game, ret |-> FALSE]}
     ELSE IF \E k \in 1..Len(tiles) :
               tiles[k].player # p
               \/ game.Racks[p + 1].Slots[tiles[k].slot] = NoTile
     THEN {[game |-> game, ret |-> FALSE]}
     ELSE IF TileAt(game.Board, row, col) # NoTile
     THEN {[game |-> game, ret |-> FALSE]}
     ELSE IF ~made.ok THEN {[game |-> game, ret |-> FALSE]}
     ELSE Apply(game, move)

\* ------------------------------------------------------------------------
\* The state machine
\* ------------------------------------------------------------------------

VARIABLES
  game,        \* the Game
  crossCache,  \* Dawg.crossCache, an LRU list of [key, val]
  move,        \* the TileMove the caller has constructed, NoMove if none
  last,        \* the most recent call: its name and what it returned
  changes,     \* the number of calls so far that changed the game
  conc,        \* the GenerateMoves call in progress: caller, tasks, channel
  mem          \* the rune slices of a GenerateMoves call and their backing arrays

vars == <<game, crossCache, move, last, changes, conc, mem>>

NoMove == [kind |-> "None"]

NoCall ==
  [op |-> "none", ret |-> FALSE, score |-> 0, cached |-> FALSE, val |-> {},
   moves |-> <<>>, sq |-> <<0, 0>>, horizontal |-> FALSE]

\* A tile of the model tile set, as initTileSet makes it
Tile(letter) ==
  [Letter |-> letter, Meaning |-> letter, Score |-> TileSetScores[letter],
   PlayedBy |-> 0]

\* makeBag of the model tile set
makeBag == [i \in 1..8 |-> Tile(<<"a", "b", "?", "c", "a", "b", "a", "c">>[i])]

\* The letters the two racks are forced to in the initial state
InitRacks == << <<"a", "b", "?">>, <<"c", "a", "b">> >>

\* Game.Init followed by Game.ForceRack for both players, as the tests
\* set a game up
Game_Init(boardType, validateWords) ==
  LET f0 == FillByLetters(Rack_Init, makeBag, InitRacks[1])
      f1 == FillByLetters(Rack_Init, f0.bag, InitRacks[2])
  IN [Board |-> Board_Init(boardType), Racks |-> <<f0.rack, f1.rack>>,
      Bag |-> f1.bag, MoveList |-> <<>>, Scores |-> <<0, 0>>,
      NumPassMoves |-> 0, ValidateWords |-> validateWords]

\* The axes in the order in which GenerateMoves starts their goroutines;
\* the loops run over the first ConcBoardSize rows and columns
AxisOrder ==
  [k \in 1..(ConcBoardSize * 2) |-> <<(k - 1) \div 2, k % 2 = 1>>]

\* A channel of half the capacity
ResultMovesCapHalf == ConcBoardSize

\* The capacity of resultMoves
ResultMovesCap == ConcBoardSize * 2

\* No GenerateMoves call is in progress
NoGenerate ==
  [pc |-> "idle", spawned |-> 0,
   task |-> [k \in 1..(ConcBoardSize * 2) |-> "none"],
   resultMoves |-> <<>>, received |-> <<>>]

\* A nil slice: no backing array
NilSlice == [arr |-> <<0, 0>>, len |-> 0]

\* No GenerateMoves call whose memory is followed is in progress
NoMem ==
  [pc |-> "idle", heap |-> <<>>, before |-> <<>>, board |-> <<>>,
   rack |-> <<>>,
   leftParts |-> <<>>, task |-> <<>>]

Init ==
  /\ \E boardType \in {"standard", "explo"}, validateWords \in BOOLEAN :
       game = Game_Init(boardType, validateWords)
  /\ crossCache = <<>>
  /\ move = NoMove
  /\ last = NoCall
  /\ changes = 0
  /\ conc = NoGenerate
  /\ mem = NoMem

\* --- inputs of the calls

\* Squares at which explored moves begin: around the start square
NearStart(board) ==
  {<<StartSquare(board)[1] + dr, StartSquare(board)[2] + dc>> :
     dr \in (-MaxOffset)..MaxOffset, dc \in (-MaxOffset)..MaxOffset}

\* Letter sequences handed to Rack.FindTiles to pick the tiles of a move
PlayWords == {<<"a">>, <<"a", "b">>, <<"b", "a">>, <<"c", "a">>, <<"?">>, <<"?", "b">>}

Letter(x) == [Letter |-> x, Meaning |-> x]

Blank(x) == [Letter |-> "?", Meaning |-> x]

\* Cover sequences of the explored TileMoves
ProbeWords ==
  {<<Letter("a")>>, <<Letter("c")>>, <<Blank("b")>>,
   <<Letter("a"), Letter("b")>>, <<Letter("b"), Letter("c")>>,
   <<Letter("c"), Letter("a")>>, <<Blank("a"), Letter("b")>>,
   <<Letter("b"), Letter("a"), Letter("b")>>, <<Blank("?"), Letter("a")>>}

\* The covers that lay a cover sequence from a square along a line, one
\* square every step squares
LineCovers(start, horizontal, word, step) ==
  [c \in {<<start[1] + (IF horizontal THEN 0 ELSE (k - 1) * step),
            start[2] + (IF horizontal THEN (k - 1) * step ELSE 0)>> :
            k \in 1..Len(word)} |->
     word[IF horizontal THEN (c[2] - start[2]) \div step + 1
          ELSE (c[1] - start[1]) \div step + 1]]

\* Covers outside the line shapes: none, a diagonal pair, a pair that
\* leaves the board, RackSize and RackSize + 1 covers in a row
OddCovers(board) ==
  LET s == StartSquare(board)
  IN {<<>>,
      (s :> Letter("a")) @@ (<<s[1] + 1, s[2] + 1>> :> Letter("b")),
      (<<s[1], BoardSize - 1>> :> Letter("a")) @@ (<<s[1], BoardSize>> :> Letter("b")),
      [c \in {<<s[1], s[2] - 3 + k>> : k \in 1..RackSize} |-> Letter("a")],
      [c \in {<<s[1], s[2] - 3 + k>> : k \in 1..(RackSize + 1)} |-> Letter("a")]}

ProbeCovers(board) ==
  {LineCovers(start, horizontal, word, step) :
     start \in NearStart(board), horizontal \in BOOLEAN,
     word \in ProbeWords, step \in 1..2}
  \cup OddCovers(board)

\* --- the calls

\* game.MakeTileMove(row, col, horizontal, tiles) with the tiles that
\* FindTiles picks for the letters from the rack of player owner
CallMakeTileMove ==
  /\ move = NoMove
  /\ changes < MaxChanges
  /\ \E sq \in NearStart(game.Board) \cup {<<-1, 0>>}, horizontal \in BOOLEAN,
        owner \in 0..1, letters \in PlayWords :
       LET picked == FindTiles(game.Racks[owner + 1], letters)
           tiles == [k \in 1..Len(picked) |-> [player |-> owner, slot |-> picked[k]]]
       IN \E out \in MakeTileMove(game, sq[1], sq[2], horizontal, tiles) :
            /\ game' = out.game
            /\ last' = [NoCall EXCEPT !.op = "MakeTileMove", !.ret = out.ret]
            /\ changes' = IF out.game = game THEN changes ELSE changes + 1
  /\ move' = NoMove
  /\ UNCHANGED <<crossCache, conc, mem>>

\* move = NewTileMove(board, covers) or NewUncheckedTileMove(board, covers)
CallNewTileMove ==
  /\ move = NoMove
  /\ changes < MaxChanges
  /\ \E covers \in ProbeCovers(game.Board), validateWords \in BOOLEAN :
       move' = TileMove_Init(game.Board, covers, validateWords)
  /\ last' = [NoCall EXCEPT !.op = "NewTileMove"]
  /\ UNCHANGED <<game, crossCache, changes, conc, mem>>

\* move.IsValid(game)
CallIsValid ==
  /\ move.kind = "Tile"
  /\ last' = [NoCall EXCEPT !.op = "IsValid", !.ret = IsValid(move, game)]
  /\ UNCHANGED <<game, crossCache, move, changes, conc, mem>>

\* move.Score(game.State()) of a move whose placement is valid (the walk
\* over a placement with a gap dereferences a nil tile)
CallScore ==
  /\ move.kind = "Tile"
  /\ IsValidPlacement(move, game)
  /\ LET scored == Score(move, game.Board)
     IN /\ move' = scored.move
        /\ last' = [NoCall EXCEPT !.op = "Score", !.score = scored.score,
                                  !.cached = (move.CachedScore # NoScore)]
  /\ UNCHANGED <<game, crossCache, changes, conc, mem>>

\* game.Apply(move)
CallApply ==
  /\ move.kind = "Tile"
  /\ changes < MaxChanges
  /\ \E out \in Apply(game, move) :
       /\ game' = out.game
       /\ last' = [NoCall EXCEPT !.op = "Apply", !.ret = out.ret]
       /\ changes' = IF out.game = game THEN changes ELSE changes + 1
  /\ move' = NoMove
  /\ UNCHANGED <<crossCache, conc, mem>>

Next ==
  \/ CallMakeTileMove
  \/ CallNewTileMove
  \/ CallIsValid
  \/ CallScore
  \/ CallApply

Spec == Init /\ [][Next]_vars

\* game.State().GenerateMoves() for the player to move
CallGenerateMoves ==
  /\ move = NoMove
  /\ last.op # "GenerateMoves"
  /\ changes <= MaxGenChanges
  /\ last' = [NoCall EXCEPT
               !.op = "GenerateMoves",
               !.moves = GenerateMoves([Board |-> game.Board,
                                        Rack |-> game.Racks[PlayerToMove(game) + 1],
                                        cache |-> crossCache])]
  /\ UNCHANGED <<game, crossCache, move, changes, conc, mem>>

NextGen ==
  \/ CallMakeTileMove
  \/ CallGenerateMoves

\* Games being played by MakeTileMove, with the moves generated in between
SpecGen == Init /\ [][NextGen]_vars

\* The squares for which Axis.Init asks for a cross-check set: the anchors
AnchorSquares(board) ==
  IF board.NumTiles = 0 THEN {StartSquare(board)}
  ELSE {c \in UNION {{Adjacents(t[1], t[2], d) : d \in {ABOVE, LEFT, RIGHT, BELOW}} :
                       t \in DOMAIN board.Tiles} :
          Sq(c[1], c[2]) /\ SqTile(board, c) = NoTile}

\* axis.crossSet(sq) of an axis through an anchor square, with the cache
\* caching at most MaxCached patterns
CallCrossSet ==
  /\ move = NoMove
  /\ \E coord \in AnchorSquares(game.Board), horizontal \in BOOLEAN :
       LET cw == CrossWords(game.Board, coord[1], coord[2], ~horizontal)
           key == cw.left \o <<"?">> \o cw.right
           hit == \E i \in 1..Len(crossCache) : crossCache[i].key = key
           returns(r) ==
             /\ crossCache' = r.cache
             /\ last' = [NoCall EXCEPT !.op = "crossSet", !.val = r.val,
                                       !.cached = hit, !.sq = coord,
                                       !.horizontal = horizontal]
       IN /\ hit \/ Len(crossCache) < MaxCached
          /\ returns(Axis_crossSet(game.Board, crossCache, horizontal, coord))
  /\ UNCHANGED <<game, move, changes, conc, mem>>

NextCross ==
  \/ CallMakeTileMove
  \/ CallCrossSet

\* Games being played by MakeTileMove, with cross-check sets asked for in
\* between
SpecCross == Init /\ [][NextCross]_vars

\* --- GameState.GenerateMoves as the caller and its goroutines

\* The call begins: the channel is made
BeginGenerateMoves ==
  /\ conc.pc \in {"idle", "returned"}
  /\ conc' = [NoGenerate EXCEPT !.pc = "spawning"]
  /\ UNCHANGED <<game, crossCache, move, last, changes, mem>>

\* One go statement of the starting loop
GoKickOffAxis ==
  /\ conc.pc = "spawning"
  /\ conc' = [conc EXCEPT
               !.spawned = @ + 1,
               !.task[conc.spawned + 1] = "running",
               !.pc = IF conc.spawned + 1 = ConcBoardSize * 2
                      THEN "collecting" ELSE "spawning"]
  /\ UNCHANGED <<game, crossCache, move, last, changes, mem>>

\* The goroutine of an axis sends its move list; the send waits while
\* the channel is full
SendResult ==
  /\ \E k \in 1..(ConcBoardSize * 2) :
       /\ conc.task[k] = "running"
       /\ Len(conc.resultMoves) < ResultMovesCap
       /\ conc' = [conc EXCEPT !.task[k] = "done",
                               !.resultMoves = Append(@, AxisOrder[k])]
  /\ UNCHANGED <<game, crossCache, move, last, changes, mem>>

\* One receive of the collecting loop; it waits while the channel is
\* empty
ReceiveResult ==
  /\ conc.pc = "collecting"
  /\ Len(conc.received) < ConcBoardSize * 2
  /\ conc.resultMoves # <<>>
  /\ conc' = [conc EXCEPT !.received = Append(@, Head(conc.resultMoves)),
                          !.resultMoves = Tail(@)]
  /\ UNCHANGED <<game, crossCache, move, last, changes, mem>>

\* The collecting loop is over: the call returns
ReturnMoves ==
  /\ conc.pc = "collecting"
  /\ Len(conc.received) = ConcBoardSize * 2
  /\ conc' = [conc EXCEPT !.pc = "returned"]
  /\ UNCHANGED <<game, crossCache, move, last, changes, mem>>

NextConc ==
  \/ BeginGenerateMoves
  \/ GoKickOffAxis
  \/ SendResult
  \/ ReceiveResult
  \/ ReturnMoves

\* Calls of GenerateMoves, the goroutines interleaved with the caller
SpecConc == Init /\ [][NextConc]_vars

\* ------------------------------------------------------------------------
\* The rules of the game, stated on the board and the covers alone
\* ------------------------------------------------------------------------

\* The start square of the two board types
RuleStartSquare(board) == IF board.Type = "standard" THEN <<7, 7>> ELSE <<3, 3>>

\* The four squares next to a square
Neighbours(c) ==
  {<<c[1] - 1, c[2]>>, <<c[1] + 1, c[2]>>, <<c[1], c[2] - 1>>, <<c[1], c[2] + 1>>}

\* The structural rules of a tile placement
RulesOfPlacement(covers, board) ==
  LET D == DOMAIN covers
      occupied == DOMAIN board.Tiles
      rows == {c[1] : c \in D}
      cols == {c[2] : c \in D}
      between == IF Cardinality(rows) = 1
                 THEN {<<r, c>> : r \in rows, c \in SetMin(cols)..SetMax(cols)}
                 ELSE {<<r, c>> : r \in SetMin(rows)..SetMax(rows), c \in cols}
  IN /\ Cardinality(D) >= 1
     /\ Cardinality(D) <= 7
     /\ \A c \in D : /\ c[1] \in 0..14
                     /\ c[2] \in 0..14
                     /\ c \notin occupied
     /\ Cardinality(rows) = 1 \/ Cardinality(cols) = 1
     /\ between \subseteq (D \cup occupied)
     /\ IF occupied = {} THEN RuleStartSquare(board) \in D
        ELSE \E c \in D : Neighbours(c) \cap occupied # {}

\* The first square of the run of tiles and covers through coord
RECURSIVE RunStart(_, _, _, _)
RunStart(board, covers, coord, horizontal) ==
  LET prev == IF horizontal THEN <<coord[1], coord[2] - 1>>
              ELSE <<coord[1] - 1, coord[2]>>
  IN IF prev \in (DOMAIN board.Tiles \cup DOMAIN covers)
     THEN RunStart(board, covers, prev, horizontal)
     ELSE coord

\* The meanings of the run of tiles and covers from coord onwards
RECURSIVE RunWord(_, _, _, _)
RunWord(board, covers, coord, horizontal) ==
  IF coord \notin (DOMAIN board.Tiles \cup DOMAIN covers) THEN <<>>
  ELSE <<IF coord \in DOMAIN covers THEN covers[coord].Meaning
         ELSE board.Tiles[coord].Meaning>>
       \o RunWord(board, covers,
                  IF horizontal THEN <<coord[1], coord[2] + 1>>
                  ELSE <<coord[1] + 1, coord[2]>>,
                  horizontal)

\* The word that the board with the covers laid reads through coord
WordThrough(board, covers, coord, horizontal) ==
  RunWord(board, covers, RunStart(board, covers, coord, horizontal), horizontal)

\* Every word of two or more letters that the covers form is in the
\* vocabulary, and they form at least one
WordsInVocabulary(covers, board) ==
  /\ \A c \in DOMAIN covers, h \in BOOLEAN :
       LET w == WordThrough(board, covers, c, h)
       IN Len(w) >= 2 => w \in Vocabulary
  /\ \E c \in DOMAIN covers, h \in BOOLEAN :
       Len(WordThrough(board, covers, c, h)) >= 2

\* The covers can be taken from the rack, a blank for any letter
DrawnFromRack(covers, rack) ==
  /\ \A c \in DOMAIN covers :
       IF covers[c].Letter = "?" THEN covers[c].Meaning \in AlphabetSet
       ELSE covers[c].Meaning = covers[c].Letter
  /\ \A l \in Runes :
       Cardinality({c \in DOMAIN covers : covers[c].Letter = l})
         <= Cardinality({i \in 1..Len(rack) : rack[i] = l})

\* The covers that lay a sequence of covers from coord along a line over
\* the free squares
RECURSIVE LayCovers(_, _, _, _)
LayCovers(board, coord, horizontal, word) ==
  IF word = <<>> THEN <<>>
  ELSE LET next == IF horizontal THEN <<coord[1], coord[2] + 1>>
                   ELSE <<coord[1] + 1, coord[2]>>
       IN IF coord \in DOMAIN board.Tiles
          THEN LayCovers(board, next, horizontal, word)
          ELSE (coord :> Head(word)) @@ LayCovers(board, next, horizontal, Tail(word))

\* The sequences of one to MaxLegalCovers covers
CoverWords ==
  UNION {[1..n -> {Letter(x) : x \in AlphabetSet} \cup {Blank(x) : x \in AlphabetSet}] :
           n \in 1..MaxLegalCovers}

\* The legal placements of up to MaxLegalCovers covers that begin within
\* MaxReach squares of the start square
LegalPlacements(g) ==
  LET s == RuleStartSquare(g.Board)
      rack == AsRunes(g.Racks[PlayerToMove(g) + 1])
  IN {covers \in {LayCovers(g.Board, <<s[1] + dr, s[2] + dc>>, h, w) :
                    dr \in (-MaxReach)..MaxReach, dc \in (-MaxReach)..MaxReach,
                    h \in BOOLEAN, w \in CoverWords} :
        /\ DrawnFromRack(covers, rack)
        /\ RulesOfPlacement(covers, g.Board)
        /\ WordsInVocabulary(covers, g.Board)}

\* ------------------------------------------------------------------------
\* Move generation
\* ------------------------------------------------------------------------

\* C1: every move that GenerateMoves returns for a state passes IsValid
\* against that state with word validation enabled
GenSoundness ==
  last.op = "GenerateMoves"
    => \A i \in 1..Len(last.moves) :
         IsValid([last.moves[i] EXCEPT !.ValidateWords = TRUE], game)

\* C2: every legal placement for the player to move, in either
\* orientation and with blanks standing for any letter, is among the
\* moves that GenerateMoves returns
GenCompleteness ==
  last.op = "GenerateMoves"
    => \A covers \in LegalPlacements(game) :
         \E i \in 1..Len(last.moves) : last.moves[i].Covers = covers

\* ------------------------------------------------------------------------
\* Word validation and cross-checks
\* ------------------------------------------------------------------------

\* The main word of a move without its blank markers is in the vocabulary
\* and so is the word through every cover across the move that has two
\* letters or more
WordsOfMoveInDawg(m, board) ==
  LET some == CHOOSE c \in DOMAIN m.Covers : TRUE
      main == WordThrough(board, m.Covers, some, m.Horizontal)
  IN /\ SelectSeq(main, LAMBDA r : r # "?") \in Vocabulary
     /\ \A c \in DOMAIN m.Covers :
          LET w == WordThrough(board, m.Covers, c, ~m.Horizontal)
          IN Len(w) >= 2 => w \in Vocabulary

\* C3: with word validation enabled, a structurally valid move passes
\* IsValid exactly when its main word and every cross-word, read at the
\* cover's own square, are in the DAWG
ValidationExact ==
  (last.op = "IsValid" /\ move.ValidateWords
     /\ RulesOfPlacement(move.Covers, game.Board))
    => (last.ret <=> WordsOfMoveInDawg(move, game.Board))

\* The word read across the axis through a square that holds letter x
CrossWordWith(board, coord, horizontal, x) ==
  WordThrough(board, (coord :> Letter(x)), coord, ~horizontal)

\* C4: the cross-check set of an empty square with a tile across the axis
\* holds exactly the letters x for which left + x + right is in the DAWG,
\* whether it comes from the cache or is computed
CrossCheckExact ==
  (last.op = "crossSet"
     /\ Len(CrossWordWith(game.Board, last.sq, last.horizontal, "a")) >= 2)
    => last.val = {x \in AlphabetSet :
                     CrossWordWith(game.Board, last.sq, last.horizontal, x)
                       \in Vocabulary}

\* A cross-check set that allows some letters and not others is returned
\* from the cache
CrossCheckFromCache ==
  /\ last.op = "crossSet"
  /\ last.cached
  /\ Len(CrossWordWith(game.Board, last.sq, last.horizontal, "a")) >= 2
  /\ last.val # {}
  /\ last.val # AlphabetSet

\* ------------------------------------------------------------------------
\* Structural validation
\* ------------------------------------------------------------------------

\* C5: on a board with no tiles IsValid rejects every move that does not
\* cover the start square, (7,7) on the standard and (3,3) on the explo
\* board, and accepts a move that covers it and is otherwise legal, in
\* either orientation
FirstMoveStartSquare ==
  (last.op = "IsValid" /\ DOMAIN game.Board.Tiles = {})
    => /\ RuleStartSquare(game.Board) \notin DOMAIN move.Covers => ~last.ret
       /\ (/\ RuleStartSquare(game.Board) \in DOMAIN move.Covers
           /\ RulesOfPlacement(move.Covers, game.Board)
           /\ move.ValidateWords => WordsOfMoveInDawg(move, game.Board))
            => last.ret

\* A vertical first move of two covers over the start square of the explo
\* board is accepted
FirstMoveAccepted ==
  /\ last.op = "IsValid"
  /\ DOMAIN game.Board.Tiles = {}
  /\ game.Board.Type = "explo"
  /\ <<3, 3>> \in DOMAIN move.Covers
  /\ Cardinality(DOMAIN move.Covers) = 2
  /\ ~move.Horizontal
  /\ last.ret

\* C6: without word validation IsValid returns true exactly when the
\* structural rules hold: 1 to 7 covers, on free squares of the board, in
\* one row or column, without gaps, over the start square of an empty
\* board or next to a tile
StructuralRulesExact ==
  (last.op = "IsValid" /\ ~move.ValidateWords)
    => (last.ret <=> RulesOfPlacement(move.Covers, game.Board))

\* An unvalidated move whose covers lie on both sides of a tile of the
\* board is accepted
GapFilledByTileAccepted ==
  /\ last.op = "IsValid"
  /\ ~move.ValidateWords
  /\ last.ret
  /\ \E t \in DOMAIN game.Board.Tiles :
       \/ {<<t[1], t[2] - 1>>, <<t[1], t[2] + 1>>} \subseteq DOMAIN move.Covers
       \/ {<<t[1] - 1, t[2]>>, <<t[1] + 1, t[2]>>} \subseteq DOMAIN move.Covers

\* ------------------------------------------------------------------------
\* Scoring
\* ------------------------------------------------------------------------

\* The squares of the run of tiles and covers from coord onwards
RECURSIVE RunSquares(_, _, _, _)
RunSquares(board, covers, coord, horizontal) ==
  IF coord \notin (DOMAIN board.Tiles \cup DOMAIN covers) THEN <<>>
  ELSE <<coord>> \o RunSquares(board, covers,
                               IF horizontal THEN <<coord[1], coord[2] + 1>>
                               ELSE <<coord[1] + 1, coord[2]>>,
                               horizontal)

\* The squares of the word that the board with the covers reads through
\* coord
SquaresThrough(board, covers, coord, horizontal) ==
  RunSquares(board, covers, RunStart(board, covers, coord, horizontal), horizontal)

RECURSIVE SeqProduct(_)
SeqProduct(s) == IF s = <<>> THEN 1 ELSE Head(s) * SeqProduct(Tail(s))

\* The scoring rule, given the letter points of every cover: the points of
\* the main word times the word multipliers of the covered squares, the
\* points of every cross-word times the word multiplier of its cover, and
\* the bonus for seven covers
RuleScore(covers, horizontal, board, points) ==
  LET D == ReadingOrder(DOMAIN covers)
      main == SquaresThrough(board, covers, D[1], horizontal)
      at(q, c) == IF q = c THEN points[c] ELSE board.Tiles[q].Score
      mainPoints == SeqSum([i \in 1..Len(main) |->
                              IF main[i] \in DOMAIN covers THEN points[main[i]]
                              ELSE board.Tiles[main[i]].Score])
      multiplier == SeqProduct([i \in 1..Len(D) |->
                                  WordMultiplier(board, D[i][1], D[i][2])])
      cross(c) == LET across == SquaresThrough(board, (c :> covers[c]), c,
                                               ~horizontal)
                  IN IF Len(across) < 2 THEN 0
                     ELSE SeqSum([i \in 1..Len(across) |-> at(across[i], c)])
                          * WordMultiplier(board, c[1], c[2])
  IN mainPoints * multiplier
     + SeqSum([i \in 1..Len(D) |-> cross(D[i])])
     + (IF Len(D) = 7 THEN 50 ELSE 0)

\* The letter points of the covers: the score of the letter in the tile
\* set times the letter multiplier of the square
LetterPoints(covers, board) ==
  [c \in DOMAIN covers |->
     TileSetScores[covers[c].Letter] * LetterMultiplier(board, c[1], c[2])]

\* The letter points of the covers with nothing for a blank
LetterPointsBlankZero(covers, board) ==
  [c \in DOMAIN covers |->
     IF covers[c].Letter = "?" THEN 0
     ELSE TileSetScores[covers[c].Letter] * LetterMultiplier(board, c[1], c[2])]

\* C8: TileMove.Score returns the value of the scoring rule, on the first
\* call and on every repeated call
ScoreRuleExact ==
  last.op = "Score"
    => last.score = RuleScore(move.Covers, move.Horizontal, game.Board,
                              LetterPoints(move.Covers, game.Board))

\* A repeated call scores a move with a cross-word and a letter on a
\* square that multiplies
ScoredCrossWordAgain ==
  /\ last.op = "Score"
  /\ last.cached
  /\ last.score > 0
  /\ \E c \in DOMAIN move.Covers :
       /\ Len(SquaresThrough(game.Board, move.Covers, c, ~move.Horizontal)) >= 2
       /\ LetterMultiplier(game.Board, c[1], c[2])
            * WordMultiplier(game.Board, c[1], c[2]) > 1

\* C9: a blank cover with a meaning adds no letter points to the main
\* word or to a cross-word, whatever its square, and the word multiplier
\* of its square still applies
BlankScoresNothing ==
  (last.op = "Score"
     /\ \E c \in DOMAIN move.Covers :
          move.Covers[c].Letter = "?" /\ move.Covers[c].Meaning # "?")
    => last.score = RuleScore(move.Covers, move.Horizontal, game.Board,
                              LetterPointsBlankZero(move.Covers, game.Board))

\* A move is scored whose blank lies on a square that multiplies the word
\* and that scores for its other letters
BlankOnWordMultiplier ==
  /\ last.op = "Score"
  /\ last.score > 0
  /\ \E c \in DOMAIN move.Covers :
       /\ move.Covers[c].Letter = "?"
       /\ move.Covers[c].Meaning # "?"
       /\ WordMultiplier(game.Board, c[1], c[2]) > 1

\* ------------------------------------------------------------------------
\* Failed moves
\* ------------------------------------------------------------------------

\* C7: a call of Game.Apply or Game.MakeTileMove that returns false leaves
\* the game as it was
FailedMoveLeavesGame ==
  [][(last'.op \in {"Apply", "MakeTileMove"} /\ ~last'.ret) => game' = game]_vars

\* ------------------------------------------------------------------------
\* The result channel of GenerateMoves
\* ------------------------------------------------------------------------

\* C10: under every interleaving no goroutine finds the channel full when
\* it sends, none sends twice, the caller is never left waiting for a
\* result that will not come, and when the call returns it has received
\* one result from every axis, the channel is empty and every goroutine
\* has finished
ResultChannelExact ==
  LET n == ConcBoardSize * 2
      inChannel == {conc.resultMoves[i] : i \in 1..Len(conc.resultMoves)}
      got == {conc.received[i] : i \in 1..Len(conc.received)}
      sent == {AxisOrder[k] : k \in {k \in 1..n : conc.task[k] = "done"}}
  IN /\ (\E k \in 1..n : conc.task[k] = "running")
          => Len(conc.resultMoves) < ResultMovesCap
     /\ Len(conc.resultMoves) + Len(conc.received) = Cardinality(sent)
     /\ inChannel \cup got = sent
     /\ (conc.pc = "collecting" /\ Len(conc.received) < n
           /\ conc.resultMoves = <<>>)
          => \E k \in 1..n : conc.task[k] = "running"
     /\ conc.pc = "returned"
          => /\ got = {AxisOrder[k] : k \in 1..n}
             /\ Len(conc.received) = n
             /\ conc.resultMoves = <<>>
             /\ \A k \in 1..n : conc.task[k] = "done"

\* A call returns that received the results in another order than the
\* goroutines were started
ReturnedOutOfOrder ==
  /\ conc.pc = "returned"
  /\ conc.received # AxisOrder

\* ------------------------------------------------------------------------
\* The memory of a GenerateMoves call.  A rune slice is a backing array of
\* the heap and a length; the capacity is the length of the array, a cell
\* not yet written holds "_".  The address of an array is the goroutine
\* that made it (0 the caller, k the task k) and its number among the
\* arrays of that goroutine.  The caller makes the rack runes and the
\* leftParts, the axis tasks then navigate; the steps of different tasks
\* interleave.  Which edges a task enters and which letters it accepts is
\* left open; what each step does to the slices is what the code does.
\* ------------------------------------------------------------------------

\* The runes of a slice
SliceRunes(heap, s) ==
  IF s = NilSlice THEN <<>> ELSE SubSeq(heap[s.arr[1]][s.arr[2]], 1, s.len)

\* make([]rune, len(runes), len(runes)+spare) in goroutine o, filled with
\* runes
MakeSlice(heap, o, runes, spare) ==
  [heap |-> [heap EXCEPT ![o] = Append(@, runes \o [i \in 1..spare |-> "_"])],
   slice |-> [arr |-> <<o, Len(heap[o]) + 1>>, len |-> Len(runes)]]

\* RemoveRune written as append(s[:ix], s[ix+1:]...): the runes after ix
\* are moved down in the array of s
Slice_RemoveRuneInPlace(heap, o, s, r) ==
  LET runes == SliceRunes(heap, s)
      found == {i \in 1..Len(runes) : runes[i] = r}
      ix == SetMin(found)
      moved == SubSeq(runes, 1, ix - 1) \o SubSeq(runes, ix + 1, Len(runes))
  IN IF found = {} THEN [heap |-> heap, slice |-> s]
     ELSE [heap |-> [heap EXCEPT ![s.arr[1]][s.arr[2]] =
                       moved \o SubSeq(@, Len(moved) + 1, Len(@))],
           slice |-> [arr |-> s.arr, len |-> Len(moved)]]

\* RemoveRune on slices: the result is a new array of capacity len(s), or
\* s itself where the rune is not found
Slice_RemoveRune(heap, o, s, r) ==
  LET runes == SliceRunes(heap, s)
      found == {i \in 1..Len(runes) : runes[i] = r}
      ix == SetMin(found)
  IN IF found = {} THEN [heap |-> heap, slice |-> s]
     ELSE MakeSlice(heap, o, SubSeq(runes, 1, ix - 1)
                             \o SubSeq(runes, ix + 1, Len(runes)), 1)

\* append(s, r): in place where the capacity allows, else into a new array
\* of twice the capacity
Slice_Append(heap, o, s, r) ==
  IF s # NilSlice /\ s.len < Len(heap[s.arr[1]][s.arr[2]])
  THEN [heap |-> [heap EXCEPT ![s.arr[1]][s.arr[2]][s.len + 1] = r],
        slice |-> [arr |-> s.arr, len |-> s.len + 1]]
  ELSE MakeSlice(heap, o, Append(SliceRunes(heap, s), r),
                 IF s.len = 0 THEN 1 ELSE s.len - 1)

\* The start of Navigation.FromEdge: alreadyMatched is copied into a new
\* slice with room for the prefix; nothing matched leaves the nil slice
FromEdge_Matched(heap, o, alreadyMatched, lenP) ==
  IF alreadyMatched.len > 0
  THEN MakeSlice(heap, o, SliceRunes(heap, alreadyMatched), lenP)
  ELSE [heap |-> heap, slice |-> NilSlice]

\* The leftParts of FindLeftParts laid out in memory, bucket after bucket:
\* matched in the array FromEdge gave it, with a cell to spare where the
\* prefix of the edge goes on, and the rack as RemoveRune returned it
RECURSIVE LayLeftParts(_, _, _, _)
LayLeftParts(heap, parts, i, laid) ==
  IF i > Len(parts) THEN [heap |-> heap, leftParts |-> laid]
  ELSE LET withRack(m, r) ==
             LayLeftParts(r.heap, parts, i + 1,
                          Append(laid, [matched |-> m.slice, rack |-> r.slice,
                                        state |-> parts[i].state]))
           withMatched(m) == withRack(m, MakeSlice(m.heap, 0, parts[i].rack, 1))
       IN withMatched(MakeSlice(heap, 0, parts[i].matched,
                                IF parts[i].state.prefix # <<>> THEN 1 ELSE 0))

\* A task before its go statement has run
NoTask ==
  [pc |-> "start", axisRack |-> NilSlice, rack |-> NilSlice, stack |-> <<>>,
   matched |-> NilSlice, room |-> 0, steps |-> 0, navs |-> 0, edges |-> 0,
   from |-> 0]

\* GenerateMoves up to the go statements: the rack runes, the leftParts
MemBegin ==
  /\ mem.pc = "idle"
  /\ LET state == [Board |-> game.Board, Rack |-> game.Racks[PlayerToMove(game) + 1]]
         parts(rack) == LayLeftParts(rack.heap, Flatten(FindLeftParts(AsRunes(state.Rack))),
                                     1, <<>>)
         begun(rack, laid) ==
           [pc |-> "running", heap |-> laid.heap,
            before |-> laid.heap, board |-> state.Board, rack |-> state.Rack,
            leftParts |-> laid.leftParts, task |-> [k \in 1..MemTasks |-> NoTask]]
         from(rack) == begun(rack, parts(rack))
     IN mem' = from(MakeSlice([o \in 0..MemTasks |-> <<>>], 0, AsRunes(state.Rack),
                              RackSize - Len(AsRunes(state.Rack))))
  /\ UNCHANGED <<game, crossCache, move, last, changes, conc>>

\* The task k with its fields changed and the heap it leaves
MemStep(k, heap, task) == [mem EXCEPT !.heap = heap, !.task[k] = task]

\* Axis.Init in task k: axis.rack = state.Rack.AsRunes()
MemAxisInit(k) ==
  /\ mem.pc = "running"
  /\ mem.task[k].pc = "start"
  /\ LET made(r) == MemStep(k, r.heap, [mem.task[k] EXCEPT !.pc = "anchor",
                                                          !.axisRack = r.slice])
     IN mem' = made(MakeSlice(mem.heap, k, AsRunes(mem.rack),
                              RackSize - Len(AsRunes(mem.rack))))
  /\ UNCHANGED <<game, crossCache, move, last, changes, conc>>

\* genMovesFromAnchor: ern.Init(axis, anchor, rack) and dawg.Navigate(&ern)
MemNavigate(k) ==
  /\ mem.pc = "running"
  /\ mem.task[k].pc = "anchor"
  /\ mem.task[k].navs < MaxNavs
  /\ mem' = MemStep(k, mem.heap,
                    [mem.task[k] EXCEPT !.pc = "node", !.rack = mem.task[k].axisRack,
                                        !.matched = NilSlice, !.stack = <<>>,
                                        !.navs = @ + 1, !.from = 0])
  /\ UNCHANGED <<game, crossCache, move, last, changes, conc>>

\* genMovesFromAnchor: ern.Init(axis, anchor, leftPart.rack) and
\* dawg.Resume(&ern, leftPart.state, leftPart.matched)
MemResume(k) ==
  /\ mem.pc = "running"
  /\ mem.task[k].pc = "anchor"
  /\ mem.task[k].navs < MaxNavs
  /\ \E i \in 1..Len(mem.leftParts) :
       LET lp == mem.leftParts[i]
           entered(m) ==
             MemStep(k, m.heap,
                     [mem.task[k] EXCEPT !.pc = "edge", !.rack = lp.rack,
                                         !.matched = m.slice, !.stack = <<>>,
                                         !.room = Len(lp.state.prefix),
                                         !.navs = @ + 1, !.from = i])
       IN mem' = entered(FromEdge_Matched(mem.heap, k, lp.matched,
                                          Len(lp.state.prefix)))
  /\ UNCHANGED <<game, crossCache, move, last, changes, conc>>

\* FromNode: PushEdge saves the rack, FromEdge is entered with matched
MemPushEdge(k) ==
  /\ mem.pc = "running"
  /\ mem.task[k].pc = "node"
  /\ mem.task[k].edges < MaxEdges
  /\ \E lenP \in 1..MaxPrefixLen :
       LET entered(m) ==
             MemStep(k, m.heap,
                     [mem.task[k] EXCEPT
                        !.pc = "edge", !.matched = m.slice, !.room = lenP,
                        !.edges = @ + 1,
                        !.stack = Append(@, [rack |-> mem.task[k].rack,
                                             matched |-> mem.task[k].matched])])
       IN mem' = entered(FromEdge_Matched(mem.heap, k, mem.task[k].matched, lenP))
  /\ UNCHANGED <<game, crossCache, move, last, changes, conc>>

\* FromEdge: navigator.Accepts(letter), then matched = append(matched, letter)
MemAccepts(k) ==
  /\ mem.pc = "running"
  /\ mem.task[k].pc = "edge"
  /\ mem.task[k].room > 0
  /\ mem.task[k].steps < MaxTaskSteps
  /\ \E letter \in AlphabetSet, match \in {mBoardTile, mRackTile} :
       LET t == mem.task[k]
           rack == SliceRunes(mem.heap, t.rack)
           appended(r, m) ==
             MemStep(k, m.heap, [t EXCEPT !.rack = r.slice, !.matched = m.slice,
                                          !.room = @ - 1, !.steps = @ + 1])
           accepted(r) == appended(r, Slice_Append(r.heap, k, t.matched, letter))
       IN /\ match = mRackTile
               => ContainsRune(rack, letter) \/ ContainsRune(rack, "?")
          /\ mem' = accepted(IF match # mRackTile
                             THEN [heap |-> mem.heap, slice |-> t.rack]
                             ELSE Slice_RemoveRune(mem.heap, k, t.rack,
                                    IF ContainsRune(rack, letter) THEN letter
                                    ELSE "?"))
  /\ UNCHANGED <<game, crossCache, move, last, changes, conc>>

\* FromEdge: the prefix is complete, on to FromNode(state.nextNode, matched)
MemFromNode(k) ==
  /\ mem.pc = "running"
  /\ mem.task[k].pc = "edge"
  /\ mem.task[k].room = 0
  /\ mem' = MemStep(k, mem.heap, [mem.task[k] EXCEPT !.pc = "node"])
  /\ UNCHANGED <<game, crossCache, move, last, changes, conc>>

\* FromEdge returns into FromNode: PopEdge restores the rack
MemPopEdge(k) ==
  /\ mem.pc = "running"
  /\ mem.task[k].pc \in {"edge", "node"}
  /\ mem.task[k].stack # <<>>
  /\ LET t == mem.task[k]
         top == t.stack[Len(t.stack)]
     IN mem' = MemStep(k, mem.heap,
                       [t EXCEPT !.pc = "node", !.rack = top.rack,
                                 !.matched = top.matched,
                                 !.stack = SubSeq(t.stack, 1, Len(t.stack) - 1)])
  /\ UNCHANGED <<game, crossCache, move, last, changes, conc>>

\* The navigation returns to genMovesFromAnchor
MemNavDone(k) ==
  /\ mem.pc = "running"
  /\ mem.task[k].pc \in {"edge", "node"}
  /\ mem.task[k].stack = <<>>
  /\ mem' = MemStep(k, mem.heap, [mem.task[k] EXCEPT !.pc = "anchor"])
  /\ UNCHANGED <<game, crossCache, move, last, changes, conc>>

\* The task sends its moves and ends
MemSend(k) ==
  /\ mem.pc = "running"
  /\ mem.task[k].pc = "anchor"
  /\ mem' = MemStep(k, mem.heap, [mem.task[k] EXCEPT !.pc = "done"])
  /\ UNCHANGED <<game, crossCache, move, last, changes, conc>>

\* GenerateMoves has received from every task and returns
MemReturn ==
  /\ mem.pc = "running"
  /\ \A k \in 1..MemTasks : mem.task[k].pc = "done"
  /\ mem' = [mem EXCEPT !.pc = "returned"]
  /\ UNCHANGED <<game, crossCache, move, last, changes, conc>>

NextMem ==
  \/ MemBegin
  \/ \E k \in 1..MemTasks :
       \/ MemAxisInit(k)
       \/ MemNavigate(k)
       \/ MemResume(k)
       \/ MemPushEdge(k)
       \/ MemAccepts(k)
       \/ MemFromNode(k)
       \/ MemPopEdge(k)
       \/ MemNavDone(k)
       \/ MemSend(k)
  \/ MemReturn

\* A new game on the standard board
InitMem == Init /\ game = Game_Init("standard", TRUE)

\* One GenerateMoves call on a new game, its tasks interleaved step by step
SpecMem == InitMem /\ [][NextMem]_vars

\* The leftParts as their slices read now
LeftPartsInMemory ==
  [i \in 1..Len(mem.leftParts) |->
     [matched |-> SliceRunes(mem.heap, mem.leftParts[i].matched),
      rack |-> SliceRunes(mem.heap, mem.leftParts[i].rack),
      state |-> mem.leftParts[i].state]]

\* C11: during a GenerateMoves call no task writes to the board, to the
\* rack or to the leftParts: the board and the rack are the ones the call
\* began with, and every backing array the caller made before it started
\* the tasks (the rack runes, the matched runes and the residual racks of
\* the leftParts) holds what it held then, as do the leftParts themselves
\* with their cursors, at every point of every interleaving.
TasksLeaveSharedMemory ==
  mem.pc \in {"running", "returned"} =>
    /\ game.Board = mem.board
    /\ game.Racks[PlayerToMove(game) + 1] = mem.rack
    /\ mem.heap[0] = mem.before[0]
    /\ \A i \in 1..Len(mem.leftParts) :
         /\ mem.leftParts[i].matched.arr[1] = 0
         /\ mem.leftParts[i].rack.arr[1] = 0
    /\ LeftPartsInMemory = Flatten(FindLeftParts(AsRunes(mem.rack)))

\* Two tasks have resumed from the same left part, and each has taken a
\* tile from its residual rack and appended to its matched runes
TwoTasksOnOneLeftPart ==
  /\ mem.pc = "running"
  /\ \E j, k \in 1..MemTasks :
       /\ j # k
       /\ mem.task[j].from # 0
       /\ mem.task[j].from = mem.task[k].from
       /\ \A t \in {mem.task[j], mem.task[k]} :
            /\ t.pc = "edge"
            /\ t.steps >= 1
            /\ t.matched.len > mem.leftParts[t.from].matched.len
            /\ t.rack.len < mem.leftParts[t.from].rack.len

\* ------------------------------------------------------------------------
\* Run-time failures of move generation (movegen.go, navigators.go).  A
\* navigator records in its panic field that one of its index expressions
\* left its range; the operators below follow GenerateMoves and tell
\* whether the call panics instead of returning.
\* ------------------------------------------------------------------------

\* Axis.genMovesFromAnchor panics
genMovesFromAnchor_panics(axis, anchor, maxLeft, leftParts) ==
  LET rack == axis.rack
      coord == axis.sq[anchor + 1]
  IN IF maxLeft = 0 /\ anchor > 0 /\ SqTile(axis.board, axis.sq[anchor]) # NoTile
     THEN LET direction == IF axis.horizontal THEN LEFT ELSE ABOVE
              fragment == Fragment(axis.board, coord[1], coord[2], direction)
              left == Reverse(Meanings(fragment))
              extend(lfn) ==
                IF lfn.state = NilState THEN FALSE
                ELSE Resume(ExtendRightNavigator_Init(axis, anchor, rack),
                            lfn.state, left).panic
          IN extend(Go(LeftFindNavigator_Init(left), TRUE))
     ELSE LET leftReach == Min(maxLeft, Len(rack) - 1)
              fromPart(leftPart) ==
                Resume(ExtendRightNavigator_Init(axis, anchor, leftPart.rack),
                       leftPart.state, leftPart.matched).panic
              fromLen(leftLen) ==
                \/ leftLen \notin DOMAIN leftParts
                \/ \E k \in 1..Len(leftParts[leftLen]) :
                     fromPart(leftParts[leftLen][k])
          IN \/ Go(ExtendRightNavigator_Init(axis, anchor, rack), FALSE).panic
             \/ \E leftLen \in 1..leftReach : fromLen(leftLen)

\* The loop of Axis.GenerateMoves from square i on panics
RECURSIVE AxisPanicsFrom(_, _, _, _)
AxisPanicsFrom(axis, leftParts, i, lastAnchor) ==
  IF i >= BoardSize THEN FALSE
  ELSE IF ~axis.isAnchor[i + 1]
  THEN AxisPanicsFrom(axis, leftParts, i + 1, lastAnchor)
  ELSE \/ /\ axis.crossCheck[i + 1] # {}
          /\ genMovesFromAnchor_panics(axis, i, OpenCnt(axis, i, lastAnchor),
                                       leftParts)
       \/ AxisPanicsFrom(axis, leftParts, i + 1, i)

\* GameState.GenerateMoves panics: in FindLeftParts or in one of its tasks
GenerateMoves_panics(state) ==
  LET rack == AsRunes(state.Rack)
      tasks(lpn) ==
        \/ lpn.panic
        \/ \E k \in 1..(2 * BoardSize) :
             AxisPanicsFrom(Axis_Init(state, MakeSet(rack), (k - 1) \div 2,
                                      k % 2 = 1),
                            lpn.leftParts, 0, -1)
  IN tasks(Go(LeftPermutationNavigator_Init(rack), TRUE))

\* The order of the runes in the racks that are tried
RuneRank(r) == CASE r = "a" -> 1 [] r = "b" -> 2 [] r = "c" -> 3 [] r = "?" -> 4

\* The racks of 0 to RackSize tiles with at most two blanks, as the tile
\* sets have them, each in one order of its tiles
FailRacks ==
  {r \in UNION {[1..n -> Runes] : n \in 0..RackSize} :
     /\ \A i \in 1..(Len(r) - 1) : RuneRank(r[i]) <= RuneRank(r[i + 1])
     /\ Cardinality({i \in 1..Len(r) : r[i] = "?"}) <= 2}

\* A rack holding the given tiles in its first slots
RackOf(runes) ==
  [Slots |-> [i \in 1..RackSize |->
                IF i <= Len(runes) THEN Tile(runes[i]) ELSE NoTile],
   Letters |-> [r \in Runes |-> Cardinality({i \in 1..Len(runes) : runes[i] = r})]]

\* The board with the letters of word laid from coord on
RECURSIVE BoardWith(_, _, _, _)
BoardWith(board, coord, horizontal, word) ==
  IF word = <<>> THEN board
  ELSE BoardWith(PlaceTile(board, coord[1], coord[2], Tile(Head(word))).board,
                 IF horizontal THEN <<coord[1], coord[2] + 1>>
                 ELSE <<coord[1] + 1, coord[2]>>,
                 horizontal, Tail(word))

\* The boards that are tried: empty, a word in the middle, and words that
\* touch the right, the bottom, the left and the top edge
FailBoards ==
  {Board_Init("standard"),
   BoardWith(Board_Init("standard"), <<7, 7>>, TRUE, <<"a", "b">>),
   BoardWith(Board_Init("standard"), <<7, 12>>, TRUE, <<"a", "b">>),
   BoardWith(Board_Init("standard"), <<13, 0>>, FALSE, <<"b", "a">>),
   BoardWith(Board_Init("explo"), <<0, 12>>, TRUE, <<"c", "a", "b">>)}

InitFail ==
  /\ \E board \in FailBoards, rack \in FailRacks :
       game = [Game_Init(board.Type, TRUE) EXCEPT
                 !.Board = board, !.Racks[1] = RackOf(rack)]
  /\ crossCache = <<>>
  /\ move = NoMove
  /\ last = NoCall
  /\ changes = 0
  /\ conc = NoGenerate
  /\ mem = NoMem

\* game.State().GenerateMoves() for the player to move: ret tells whether
\* the call returned, moves what it returned
CallGenerateMovesOrPanic ==
  /\ last.op = "none"
  /\ LET state == [Board |-> game.Board,
                   Rack |-> game.Racks[PlayerToMove(game) + 1],
                   cache |-> crossCache]
         returns(panics) ==
           [NoCall EXCEPT !.op = "GenerateMoves",
                          !.ret = ~panics,
                          !.moves = IF panics THEN <<>> ELSE GenerateMoves(state)]
     IN last' = returns(GenerateMoves_panics(state))
  /\ UNCHANGED <<game, crossCache, move, changes, conc, mem>>

NextFail == CallGenerateMovesOrPanic

\* GenerateMoves called once on each of the boards with each of the racks
SpecFail == InitFail /\ [][NextFail]_vars

\* C12: GameState.GenerateMoves never fails: for every board and every rack
\* of 0 to 7 tiles, racks of one tile and racks with blanks included, it
\* returns a move list, which may be empty, and no index leaves its range.
GenerateMovesNeverFails ==
  last.op = "GenerateMoves" => last.ret

\* GenerateMoves has returned moves for a full rack with a blank on a board
\* whose word touches the right edge
GeneratedAtTheEdge ==
  /\ last.op = "GenerateMoves"
  /\ last.ret
  /\ last.moves # <<>>
  /\ SqTile(game.Board, <<7, 13>>) # NoTile
  /\ LET rack == AsRunes(game.Racks[PlayerToMove(game) + 1])
     IN Len(rack) = RackSize /\ ContainsRune(rack, "?")

\* ------------------------------------------------------------------------
\* Robots (robot.go) and the games they play (TestRobot)
\* ------------------------------------------------------------------------

\* The number of applied moves after which a robot game is given up, as
\* TestRobot gives one up after 50; the games of the model end sooner
MaxRobotMoves == 12

\* Game.State
Game_State(g, cache) ==
  [Board |-> g.Board, Rack |-> g.Racks[PlayerToMove(g) + 1],
   cache |-> cache, exchangeForbidden |-> Len(g.Bag) < RackSize]

\* Move.Score of a generated move: the score and the move, which keeps
\* its score
Move_Score(m, state) ==
  IF m.kind = "Tile" THEN Score(m, state.Board) ELSE [score |-> 0, move |-> m]

\* A PickMove that exchanges whenever there is no tile move
HighScoreRobot_PickMoveExchanging(state, moves) ==
  LET pick(scored) ==
        LET best == SetMax({scored[i].score : i \in 1..Len(scored)})
        IN {scored[i].move : i \in {j \in 1..Len(scored) : scored[j].score = best}}
  IN IF Len(moves) > 0
     THEN pick([i \in 1..Len(moves) |-> Move_Score(moves[i], state)])
     ELSE {NewExchangeMove(AsRunes(state.Rack))}

\* HighScoreRobot.PickMove: the moves it may return.  sort.Sort is not
\* stable and the order of the generated moves is not fixed, so each of
\* the highest scoring moves may come first.
HighScoreRobot_PickMove(state, moves) ==
  LET pick(scored) ==
        LET best == SetMax({scored[i].score : i \in 1..Len(scored)})
        IN {scored[i].move : i \in {j \in 1..Len(scored) : scored[j].score = best}}
  IN IF Len(moves) > 0
     THEN pick([i \in 1..Len(moves) |-> Move_Score(moves[i], state)])
     ELSE IF ~state.exchangeForbidden
     THEN {NewExchangeMove(AsRunes(state.Rack))}
     ELSE {NewPassMove}

\* RobotWrapper.GenerateMove with a HighScoreRobot
RobotWrapper_GenerateMove(state) ==
  HighScoreRobot_PickMove(state, GenerateMoves(state))

\* A game with the given bag whose racks are forced to the given letters
NewGameWith(boardType, bag, racks) ==
  LET f0 == FillByLetters(Rack_Init, bag, racks[1])
      f1 == FillByLetters(Rack_Init, f0.bag, racks[2])
  IN [Board |-> Board_Init(boardType), Racks |-> <<f0.rack, f1.rack>>,
      Bag |-> f1.bag, MoveList |-> <<>>, Scores |-> <<0, 0>>,
      NumPassMoves |-> 0, ValidateWords |-> TRUE]

\* A tile set of 21 tiles: with both racks full its bag allows exchanges
ExchangeTiles ==
  [i \in 1..(3 * RackSize) |-> Tile(IF i = 1 THEN "a" ELSE IF i = 2 THEN "b" ELSE "c")]

\* Two full racks that hold no word
ExchangeRacks == << [i \in 1..RackSize |-> "c"], [i \in 1..RackSize |-> "c"] >>

\* The games the robots play
RobotGames ==
  {Game_Init("standard", TRUE), Game_Init("explo", TRUE),
   NewGameWith("standard", ExchangeTiles, ExchangeRacks)}

InitRobot ==
  /\ game \in RobotGames
  /\ crossCache = <<>>
  /\ move = NoMove
  /\ last = NoCall
  /\ changes = 0
  /\ conc = NoGenerate
  /\ mem = NoMem

\* One round of the loop of TestRobot: the robot generates a move for the
\* player to move, the move is validated and applied.  move is the
\* generated move, last.ret tells whether it was valid and ApplyValid
\* returned true, changes counts the applied moves.
RobotTurn ==
  /\ ~IsOver(game)
  /\ changes < MaxRobotMoves
  /\ \E m \in RobotWrapper_GenerateMove(Game_State(game, crossCache)) :
       /\ move' = m
       /\ IF ~Move_IsValid(m, game)
          THEN /\ last' = [NoCall EXCEPT !.op = "RobotTurn", !.ret = FALSE]
               /\ UNCHANGED <<game, changes>>
          ELSE \E order \in (IF m.kind = "Tile" THEN CoverOrders(DOMAIN m.Covers)
                             ELSE {<<>>}) :
                 \E applied \in ApplyValid(game, m, order) :
                   /\ game' = applied.game
                   /\ last' = [NoCall EXCEPT !.op = "RobotTurn",
                                             !.ret = applied.ret]
                   /\ changes' = IF applied.ret THEN changes + 1 ELSE changes
  /\ UNCHANGED <<crossCache, conc, mem>>

NextRobot == RobotTurn

\* Games played by a HighScoreRobot
SpecRobot == InitRobot /\ [][NextRobot]_vars

\* C13: in every state of a robot game, the move RobotWrapper.GenerateMove
\* returned for the player to move passed IsValid and ApplyValid of it
\* returned true.
RobotMoveValid ==
  last.op = "RobotTurn" => last.ret /\ move # NoMove

\* The robot's tile move with a blank has been applied to a board that
\* held tiles already
RobotLaidBlank ==
  /\ last.op = "RobotTurn"
  /\ last.ret
  /\ move.kind = "Tile"
  /\ \E c \in DOMAIN move.Covers : move.Covers[c].Letter = "?"
  /\ game.Board.NumTiles > Cardinality(DOMAIN move.Covers)

\* The steps of a robot game that apply a move: RobotTurn is the only
\* action of the game, and it raises changes when ApplyValid returned true
RobotMoveApplied ==
  /\ ~IsOver(game)
  /\ changes < MaxRobotMoves
  /\ changes' = changes + 1

\* The loop of TestRobot goes on as long as the game is not over: it does
\* not stop between two turns
SpecRobotLive == SpecRobot /\ WF_changes(RobotMoveApplied)

\* C14: a game in which each turn applies the move chosen by a
\* HighScoreRobot terminates: after finitely many applied moves
\* Game.IsOver() is true.
RobotGameTerminates == <>IsOver(game)

\* A robot game with an exchange, a tile move and passes in it has ended
\* after six consecutive zero-point moves
EndedBySixPasses ==
  /\ IsOver(game)
  /\ game.NumPassMoves = 6
  /\ game.Board.NumTiles > 0
  /\ Len(game.MoveList) = changes + 2
  /\ \E i \in 1..Len(game.MoveList) : game.MoveList[i].Move.kind = "Exchange"
  /\ \E i \in 1..Len(game.MoveList) : game.MoveList[i].Move.kind = "Pass"

\* C15: every successful ApplyValid appends exactly one item to the move
\* list, the applied move, except the call that makes the game over, which
\* appends that move followed by exactly two FinalMoves; so the length of
\* the move list is the number of applied moves, plus 2 once the game is
\* over.
MoveListGrowth ==
  /\ [](Len(game.MoveList) = changes + (IF IsOver(game) THEN 2 ELSE 0))
  /\ [][changes' = changes + 1 =>
          LET n == Len(game.MoveList)
              list == game.MoveList'
          IN /\ Len(list) = n + (IF IsOver(game') THEN 3 ELSE 1)
             /\ SubSeq(list, 1, n) = game.MoveList
             /\ list[n + 1].Move = move'
             /\ \A i \in (n + 2)..Len(list) : list[i].Move.kind = "Final"]_vars

\* A robot game has ended by a tile move that emptied the rack: the move
\* list holds the applied moves and two FinalMoves
EndedByEmptyRack ==
  /\ IsOver(game)
  /\ game.NumPassMoves = 0
  /\ move.kind = "Tile"
  /\ Len(game.MoveList) = changes + 2
  /\ game.MoveList[changes].Move = move
  /\ game.MoveList[changes + 1].Move.kind = "Final"
  /\ game.MoveList[changes + 2].Move.kind = "Final"

\* ------------------------------------------------------------------------
\* Games of tile moves, passes and exchanges (TestTileMove)
\* ------------------------------------------------------------------------

\* A tile set of 16 tiles: two full racks and two tiles in the bag
PlayTiles ==
  [i \in 1..(2 * RackSize + 2) |->
     Tile(<<"a", "b", "?", "c", "a", "b", "a",
            "c", "a", "b", "c", "c", "c", "c", "a", "c">>[i])]

\* The racks of that game, full as Game.Init leaves them
PlayRacks ==
  << <<"a", "b", "?", "c", "a", "b", "a">>, <<"c", "a", "b", "c", "c", "c", "c">> >>

\* Games with full racks: one with a bag too small for an exchange, with
\* and without word validation, and one whose bag allows exchanges
InitPlay ==
  /\ \/ \E validateWords \in BOOLEAN :
          game = [NewGameWith("standard", PlayTiles, PlayRacks)
                    EXCEPT !.ValidateWords = validateWords]
     \/ game = NewGameWith("standard", ExchangeTiles, ExchangeRacks)
  /\ crossCache = <<>>
  /\ move = NoMove
  /\ last = NoCall
  /\ changes = 0
  /\ conc = NoGenerate
  /\ mem = NoMem

\* game.Apply(NewPassMove())
CallPass ==
  /\ move = NoMove
  /\ changes < MaxChanges
  /\ \E out \in Apply(game, NewPassMove) :
       /\ game' = out.game
       /\ last' = [NoCall EXCEPT !.op = "Pass", !.ret = out.ret]
       /\ changes' = IF out.game = game THEN changes ELSE changes + 1
  /\ UNCHANGED <<crossCache, move, conc, mem>>

\* The letters that are offered for exchange: none, the first tiles of the
\* rack of the player to move, all of them, and two letters it may not hold
ExchangeTries(g) ==
  LET rack == AsRunes(g.Racks[PlayerToMove(g) + 1])
  IN {SubSeq(rack, 1, n) : n \in {0, 1, 2, Len(rack)}}
     \cup {<<"b", "b">>, <<"c", "c", "c", "c", "c", "c", "c", "c">>}

\* game.Apply(NewExchangeMove(letters))
CallExchange ==
  /\ move = NoMove
  /\ changes < MaxChanges
  /\ \E letters \in ExchangeTries(game) :
       \E out \in Apply(game, NewExchangeMove(letters)) :
         /\ game' = out.game
         /\ last' = [NoCall EXCEPT !.op = "Exchange", !.ret = out.ret]
         /\ changes' = IF out.game = game THEN changes ELSE changes + 1
  /\ UNCHANGED <<crossCache, move, conc, mem>>

NextPlay ==
  \/ CallMakeTileMove
  \/ CallPass
  \/ CallExchange

\* Games of tile moves, passes and exchanges, accepted and rejected
SpecPlay == InitPlay /\ [][NextPlay]_vars

\* The number of tiles in a rack
NumTilesInRack(rack) == Cardinality({i \in 1..RackSize : rack.Slots[i] # NoTile})

\* The tiles of a game: in the bag, in the two racks and on the board
NumTilesInGame(g) ==
  Len(g.Bag) + NumTilesInRack(g.Racks[1]) + NumTilesInRack(g.Racks[2])
  + g.Board.NumTiles

\* C16: tile conservation: after any sequence of tile moves, passes and
\* exchanges, accepted or rejected, the tiles in the bag, in both racks and
\* on the board are as many as the tile set has; a pass changes none of
\* these counts.
TileConservation ==
  /\ NumTilesInGame(game) \in {Len(PlayTiles), Len(ExchangeTiles)}
  /\ [][/\ NumTilesInGame(game') = NumTilesInGame(game)
        /\ last'.op = "Pass" =>
             /\ Len(game'.Bag) = Len(game.Bag)
             /\ \A p \in 1..2 :
                  NumTilesInRack(game'.Racks[p]) = NumTilesInRack(game.Racks[p])
             /\ game'.Board.NumTiles = game.Board.NumTiles]_vars

\* ------------------------------------------------------------------------
\* The validity of exchange moves (moves.go)
\* ------------------------------------------------------------------------

\* The bag sizes of the exchange games: below, at and above RackSize
ExchangeBagSizes == (RackSize - 1)..(RackSize + 1)

\* A game with the full racks of PlayRacks and a bag of size tiles 'c'
ExchangeGame(size) ==
  NewGameWith("standard",
              [i \in 1..(2 * RackSize + size) |->
                 Tile((PlayRacks[1] \o PlayRacks[2] \o [k \in 1..size |-> "c"])[i])],
              PlayRacks)

InitExchange ==
  /\ \E size \in ExchangeBagSizes : game = ExchangeGame(size)
  /\ crossCache = <<>>
  /\ move = NoMove
  /\ last = NoCall
  /\ changes = 0
  /\ conc = NoGenerate
  /\ mem = NoMem

\* The letters of the exchange moves that are made: those of ExchangeTries,
\* two letters of which the rack may hold one, and the whole rack twice
ExchangeLetters(g) ==
  LET rack == AsRunes(g.Racks[PlayerToMove(g) + 1])
  IN ExchangeTries(g)
     \cup {<<"c", "c">>, <<"?">>, <<"a", "?", "a">>, <<"c", "b", "a">>, rack \o rack}

\* move = NewExchangeMove(letters)
CallNewExchangeMove ==
  /\ move = NoMove
  /\ \E letters \in ExchangeLetters(game) : move' = NewExchangeMove(letters)
  /\ last' = [NoCall EXCEPT !.op = "NewExchangeMove"]
  /\ UNCHANGED <<game, crossCache, changes, conc, mem>>

\* move.IsValid(game) of an exchange move
CallExchangeIsValid ==
  /\ move.kind = "Exchange"
  /\ last' = [NoCall EXCEPT !.op = "ExchangeIsValid",
                            !.ret = ExchangeMove_IsValid(move, game)]
  /\ UNCHANGED <<game, crossCache, move, changes, conc, mem>>

\* game.Apply(move) of an exchange move
CallApplyExchange ==
  /\ move.kind = "Exchange"
  /\ changes < MaxChanges
  /\ \E out \in Apply(game, move) :
       /\ game' = out.game
       /\ last' = [NoCall EXCEPT !.op = "Apply", !.ret = out.ret]
       /\ changes' = IF out.game = game THEN changes ELSE changes + 1
  /\ move' = NoMove
  /\ UNCHANGED <<crossCache, conc, mem>>

NextExchange ==
  \/ CallNewExchangeMove
  \/ CallExchangeIsValid
  \/ CallApplyExchange
  \/ CallPass

\* Exchange moves that are made, validated and applied, and passes
SpecExchange == InitExchange /\ [][NextExchange]_vars

\* The number of times a rune occurs in a sequence of runes
CountRune(runes, r) == Cardinality({i \in DOMAIN runes : runes[i] = r})

\* The runes are a sub-multiset of those of the rack
IsSubMultiset(runes, rack) ==
  \A i \in DOMAIN runes : CountRune(runes, runes[i]) <= CountRune(rack, runes[i])

\* C17: ExchangeMove.IsValid returns true if and only if the bag holds at
\* least 7 tiles, the move names between 1 and 7 letters, and the letters
\* are a sub-multiset of the rack of the player to move.
ExchangeValidity ==
  last.op = "ExchangeIsValid" =>
    (last.ret <=>
       /\ Len(game.Bag) >= 7
       /\ Len(move.Letters) \in 1..7
       /\ IsSubMultiset(move.Letters, AsRunes(game.Racks[PlayerToMove(game) + 1])))

\* The second player's exchange of two letters 'b', of which the rack holds
\* one, has been found invalid with enough tiles in the bag
ExchangeOfLetterHeldOnce ==
  /\ last.op = "ExchangeIsValid"
  /\ ~last.ret
  /\ PlayerToMove(game) = 1
  /\ Len(game.Bag) >= RackSize
  /\ move.Letters = <<"b", "b">>
  /\ CountRune(AsRunes(game.Racks[2]), "b") = 1

\* ------------------------------------------------------------------------
\* Lookups in the DAWG: Permute, Match and FindLeftParts (dawg.go)
\* ------------------------------------------------------------------------

\* The sequences of at least min and at most max runes
RECURSIVE RuneSeqs(_, _)
RuneSeqs(min, max) ==
  IF max = 0 THEN {<<>>}
  ELSE LET shorter == RuneSeqs(0, max - 1)
           longest == {Append(q, r) : q \in {q \in shorter : Len(q) = max - 1},
                                      r \in Runes}
       IN {q \in shorter \cup longest : Len(q) >= min}

\* dawg.Permute(rack, minLen)
CallPermute ==
  /\ last.op = "none"
  /\ \E rack \in RuneSeqs(0, MaxDawgLen), minLen \in 0..MaxDawgLen :
       last' = [op |-> "Permute", rack |-> rack, minLen |-> minLen,
                results |-> Permute(rack, minLen)]
  /\ UNCHANGED <<game, crossCache, move, changes, conc, mem>>

\* dawg.Match(pattern); an empty pattern has no first rune for Init to read
CallMatch ==
  /\ last.op = "none"
  /\ \E pattern \in RuneSeqs(1, MaxDawgLen) :
       last' = [op |-> "Match", pattern |-> pattern, results |-> Match(pattern)]
  /\ UNCHANGED <<game, crossCache, move, changes, conc, mem>>

\* FindLeftParts(dawg, rack)
CallFindLeftParts ==
  /\ last.op = "none"
  /\ \E rack \in RuneSeqs(0, MaxDawgLen) :
       last' = [op |-> "FindLeftParts", rack |-> rack,
                leftParts |-> FindLeftParts(rack)]
  /\ UNCHANGED <<game, crossCache, move, changes, conc, mem>>

\* The prefixes of the words of the DAWG that have the given length
Prefixes(length) ==
  {SubSeq(w, 1, length) : w \in {w \in Vocabulary : Len(w) >= length}}

\* A rack of n blank tiles: a PermutationNavigator over it accepts every
\* rune for n steps and collects the complete words it is told of
BlankRack(n) == [i \in 1..n |-> "?"]

\* The cursor that Accept receives when a resumable navigation has matched
\* the prefix, as LeftFindNavigator keeps it (Axis.genMovesFromAnchor)
CursorAfter(prefix) == Go(LeftFindNavigator_Init(prefix), TRUE).state

\* dawg.Resume(navigator, cursor, prefix) with a navigator that takes n more
\* runes, next to the navigation from the root that takes len(prefix) + n
CallResume ==
  /\ last.op = "none"
  /\ \E length \in 1..(MaxDawgLen - 1), n \in 0..MaxDawgLen :
       \E prefix \in Prefixes(length) :
         last' = [op |-> "Resume", prefix |-> prefix, n |-> n,
                  cursor |-> CursorAfter(prefix),
                  results |-> Resume(PermutationNavigator_Init(BlankRack(n), 0),
                                     CursorAfter(prefix), prefix).results,
                  root |-> Permute(BlankRack(Len(prefix) + n), 0)]
  /\ UNCHANGED <<game, crossCache, move, changes, conc, mem>>

NextDawg ==
  \/ CallPermute
  \/ CallMatch
  \/ CallFindLeftParts
  \/ CallResume

\* One lookup in the DAWG, for every rack and every pattern
SpecDawg == InitMem /\ [][NextDawg]_vars

\* The letters of the word can be drawn from the rack, a blank of the rack
\* standing for one arbitrary letter
WordDrawnFromRack(word, rack) ==
  /\ \A i \in DOMAIN word : word[i] \in AlphabetSet
  /\ SeqSum([i \in 1..Len(Alphabet) |->
               LET missing == CountRune(word, Alphabet[i]) - CountRune(rack, Alphabet[i])
               IN IF missing > 0 THEN missing ELSE 0])
       <= CountRune(rack, "?")

\* C18: every word that Dawg.Permute(r, m) returns is in the DAWG (Find
\* finds it), has at least m letters, and its letters are a sub-multiset of
\* those of r, each '?' of r standing for one arbitrary letter.
PermuteCorrect ==
  last.op = "Permute" =>
    \A i \in DOMAIN last.results :
      /\ Find(last.results[i])
      /\ last.results[i] \in Vocabulary
      /\ Len(last.results[i]) >= last.minLen
      /\ WordDrawnFromRack(last.results[i], last.rack)

\* Permute of the rack a, b, ? with a minimum of 3 letters has returned the
\* word 'abc', whose c is the blank
PermutedWithBlank ==
  /\ last.op = "Permute"
  /\ last.rack = <<"a", "b", "?">>
  /\ last.minLen = 3
  /\ \E i \in DOMAIN last.results : last.results[i] = <<"a", "b", "c">>
  /\ \A i \in DOMAIN last.results : Len(last.results[i]) = 3

\* C19: every word that Dawg.Match(p) returns is in the DAWG (Find finds
\* it), has as many runes as p, and agrees with p wherever p is not the
\* wildcard '?'.
MatchClosure ==
  last.op = "Match" =>
    \A i \in DOMAIN last.results :
      /\ Find(last.results[i])
      /\ last.results[i] \in Vocabulary
      /\ Len(last.results[i]) = Len(last.pattern)
      /\ \A k \in DOMAIN last.pattern :
           last.pattern[k] # "?" => last.results[i][k] = last.pattern[k]

\* Match of the pattern a?a has returned the word 'aba' alone, having
\* passed the shorter words 'aa' and 'ab'
MatchedAroundWildcard ==
  /\ last.op = "Match"
  /\ last.pattern = <<"a", "?", "a">>
  /\ last.results = << <<"a", "b", "a">> >>

\* The sequences matched by the left parts of a bucket
MatchedIn(bucket) == {bucket[k].matched : k \in DOMAIN bucket}

\* C20: FindLeftParts(dawg, rack) returns the left parts that the rack can
\* make, grouped by length: one bucket for each length from 1 to
\* len(rack)-1, holding exactly the prefixes of DAWG words of that length
\* whose letters can be drawn from the rack, a '?' standing for one
\* arbitrary letter; also for racks with one or two blanks.
LeftPartsExact ==
  last.op = "FindLeftParts" =>
    /\ Len(last.leftParts) = IF Len(last.rack) <= 1 THEN 0 ELSE Len(last.rack) - 1
    /\ \A length \in DOMAIN last.leftParts :
         MatchedIn(last.leftParts[length])
           = {p \in Prefixes(length) : WordDrawnFromRack(p, last.rack)}

\* ------------------------------------------------------------------------
\* Tiles placed on the board (board.go)
\* ------------------------------------------------------------------------

\* The squares handed to Board.PlaceTile: around the start square, and one
\* beyond the top and one beyond the right edge of the board
PlaceSquares(board) == NearStart(board) \cup {<<-1, 0>>, <<0, BoardSize>>}

\* game.Board.PlaceTile(row, col, tile): last.sq is the square, last.ret
\* the returned value
CallPlaceTile ==
  /\ move = NoMove
  /\ changes < MaxChanges
  /\ \E sq \in PlaceSquares(game.Board), letter \in AlphabetSet :
       LET placed == PlaceTile(game.Board, sq[1], sq[2], Tile(letter))
       IN /\ game' = [game EXCEPT !.Board = placed.board]
          /\ last' = [NoCall EXCEPT !.op = "PlaceTile", !.ret = placed.ret,
                                    !.sq = sq]
          /\ changes' = IF placed.ret THEN changes + 1 ELSE changes
  /\ UNCHANGED <<crossCache, move, conc, mem>>

NextBoard ==
  \/ CallPlaceTile
  \/ CallMakeTileMove

\* Tiles placed on the board directly and by tile moves
SpecBoard == Init /\ [][NextBoard]_vars

\* The squares of the board that hold a tile
SquaresWithTile(board) ==
  {coord \in DOMAIN board.Tiles : board.Tiles[coord] # NoTile}

\* C21: after any sequence of Board.PlaceTile calls, calls on an occupied
\* square and on a square off the board included, and of game moves,
\* Board.NumTiles is the number of squares that hold a tile; PlaceTile
\* places a tile on an empty square only.
NumTilesCountsSquares ==
  /\ [](game.Board.NumTiles = Cardinality(SquaresWithTile(game.Board)))
  /\ [][last'.op = "PlaceTile" /\ last'.ret
          => SqTile(game.Board, last'.sq) = NoTile]_vars

\* ------------------------------------------------------------------------
\* The coordinates of tile moves (board.go, moves.go)
\* ------------------------------------------------------------------------

\* colIds
colIds ==
  <<"1", "2", "3", "4", "5", "6", "7", "8", "9", "10",
    "11", "12", "13", "14", "15">>

\* rowIds
rowIds ==
  <<"A", "B", "C", "D", "E", "F", "G", "H", "I", "J",
    "L", "M", "N", "O", "P">>

\* TileMove.Coordinate
TileMove_Coordinate(m) ==
  IF m.Horizontal
  THEN rowIds[m.TopLeft[1] + 1] \o colIds[m.TopLeft[2] - m.PrefixLength + 1]
  ELSE colIds[m.TopLeft[2] + 1] \o rowIds[m.TopLeft[1] - m.PrefixLength + 1]

\* The cover sequences of the moves whose coordinate is taken
CoordWords == {<<Letter("a")>>, <<Letter("a"), Letter("b")>>}

\* The covers of the moves whose coordinate is taken: one or two covers laid
\* from any free square of the board along a row or a column, all on the
\* board
CoordCovers(board) ==
  {covers \in {LayCovers(board, <<row, col>>, horizontal, word) :
                 row \in 0..(BoardSize - 1), col \in 0..(BoardSize - 1),
                 horizontal \in BOOLEAN, word \in CoordWords} :
     \A coord \in DOMAIN covers : Sq(coord[1], coord[2])}

\* move = NewTileMove(board, covers); move.Coordinate()
CallCoordinate ==
  /\ last.op = "none"
  /\ \E covers \in CoordCovers(game.Board) :
       LET made == NewTileMove(game.Board, covers)
       IN /\ move' = made
          /\ last' = [NoCall EXCEPT !.op = "Coordinate",
                                    !.val = TileMove_Coordinate(made)]
  /\ UNCHANGED <<game, crossCache, changes, conc, mem>>

NextCoord == CallCoordinate

\* The boards of the moves: those of FailBoards and one with a word down
\* a column
CoordBoards ==
  FailBoards \cup {BoardWith(Board_Init("standard"), <<3, 3>>, FALSE, <<"a", "b">>)}

InitCoord ==
  /\ \E board \in CoordBoards :
       game = [Game_Init(board.Type, TRUE) EXCEPT !.Board = board]
  /\ crossCache = <<>>
  /\ move = NoMove
  /\ last = NoCall
  /\ changes = 0
  /\ conc = NoGenerate
  /\ mem = NoMem

\* The coordinate of one tile move on each of the boards
SpecCoord == InitCoord /\ [][NextCoord]_vars

\* The letters A to O
RowLetters ==
  <<"A", "B", "C", "D", "E", "F", "G", "H", "I", "J", "K", "L", "M", "N", "O">>

\* The decimal numerals of 1 to 15
ColumnNumbers ==
  <<"1", "2", "3", "4", "5", "6", "7", "8", "9", "10",
    "11", "12", "13", "14", "15">>

\* The first square of the whole word of a move: the top left cover, or the
\* first of the tiles of the board that lead up to it
FirstSquare(board, m) ==
  LET before == Len(Fragment(board, m.TopLeft[1], m.TopLeft[2],
                             IF m.Horizontal THEN LEFT ELSE ABOVE))
  IN IF m.Horizontal THEN <<m.TopLeft[1], m.TopLeft[2] - before>>
     ELSE <<m.TopLeft[1] - before, m.TopLeft[2]>>

\* C22: the coordinate of a move labels row r with the r-th letter of A..O
\* (row 0 is A, row 10 is K, row 14 is O) and column c with the number
\* c + 1; a horizontal move is printed row letter then column number, a
\* vertical move column number then row letter, for the first square of the
\* whole word, a prefix on the board included.
CoordinateLabels ==
  last.op = "Coordinate" =>
    LET first == FirstSquare(game.Board, move)
    IN last.val = IF move.Horizontal
                  THEN RowLetters[first[1] + 1] \o ColumnNumbers[first[2] + 1]
                  ELSE ColumnNumbers[first[2] + 1] \o RowLetters[first[1] + 1]

\* ------------------------------------------------------------------------
\* The mutexes of the two caches of the Dawg (dawg.go): tasks that call
\* Dawg.CrossSet and Dawg.iterNode concurrently.  conc holds the holder of
\* each mutex (0 when it is free), the offsets in iterNodeCache and, for
\* each task, its position in the code, its call and its counters.
\* ------------------------------------------------------------------------

\* The number of concurrent tasks
LockTasks == 2

\* The number of calls that one task makes
MaxLockOps == 2

\* The number of nodes that the Match of one fetchFunc iterates
MaxFetchNodes == 2

\* A Get that returns the value of the most recent entry
LruGetFront(cache, key) ==
  LET hits == {i \in 1..Len(cache) : cache[i].key = key}
  IN IF hits = {} THEN [ok |-> FALSE, val |-> {}, cache |-> cache]
     ELSE [ok |-> TRUE, val |-> cache[1].val, cache |-> cache]

\* cc.lru.Get(key) of the LRU list, most recent entry first: a hit moves
\* the entry to the front
LruGet(cache, key) ==
  LET hits == {i \in 1..Len(cache) : cache[i].key = key}
      found(i) == [ok |-> TRUE, val |-> cache[i].val,
                   cache |-> <<cache[i]>> \o SubSeq(cache, 1, i - 1)
                             \o SubSeq(cache, i + 1, Len(cache))]
  IN IF hits = {} THEN [ok |-> FALSE, val |-> {}, cache |-> cache]
     ELSE found(CHOOSE i \in hits : TRUE)

\* cc.lru.Add(key, val): the entry goes to the front, the oldest entry
\* leaves a cache that has grown beyond its size
LruAdd(cache, key, val) ==
  LET others == SelectSeq(cache, LAMBDA e : e.key # key)
      added == <<[key |-> key, val |-> val]>> \o others
  IN IF Len(added) > CrossCacheSize THEN SubSeq(added, 1, CrossCacheSize)
     ELSE added

\* The key of a cross-check pattern
CrossKey(left, right) == left \o <<"?">> \o right

\* The patterns the tasks ask for
LockPatterns ==
  {[left |-> <<"a">>, right |-> <<>>],
   [left |-> <<"a">>, right |-> <<"a">>]}

\* The k-th of the patterns that fill the cache: CrossCacheSize different
\* left words of seven letters
FillerLeft(k) ==
  [d \in 1..7 |-> Alphabet[(((k - 1) \div (3 ^ (d - 1))) % 3) + 1]]

\* A cache that is full: its oldest entry is that of the pattern a?a
FullCache ==
  [k \in 1..CrossCacheSize |->
     IF k = CrossCacheSize
     THEN [key |-> CrossKey(<<"a">>, <<"a">>),
           val |-> CrossSetFetch(<<"a">>, <<"a">>)]
     ELSE [key |-> CrossKey(FillerLeft(k), <<>>),
           val |-> CrossSetFetch(FillerLeft(k), <<>>)]]

\* The nodes whose edges the tasks ask for outside of CrossSet
LockNodes == {SetMax(DOMAIN DawgNodes)}

\* A task between two calls
ReadyTask ==
  [pc |-> "ready", ops |-> 0, left |-> <<>>, right |-> <<>>, val |-> {},
   hit |-> FALSE, node |-> 0, inFetch |-> FALSE, fetched |-> 0]

InitLock ==
  /\ game = Game_Init("standard", TRUE)
  /\ crossCache \in {<<>>, FullCache}
  /\ move = NoMove
  /\ last = NoCall
  /\ changes = 0
  /\ conc = [pc |-> "locks", ccMux |-> 0, mux |-> 0, iterNodeCache |-> {},
             task |-> [k \in 1..LockTasks |-> ReadyTask]]
  /\ mem = NoMem

\* A task calls dawg.CrossSet(left, right) and comes to cc.mux.Lock()
TaskCallCrossSet(k) ==
  /\ conc.task[k].pc = "ready"
  /\ conc.task[k].ops < MaxLockOps
  /\ \E p \in LockPatterns :
       conc' = [conc EXCEPT !.task[k].pc = "ccLock",
                            !.task[k].left = p.left,
                            !.task[k].right = p.right]
  /\ UNCHANGED <<game, crossCache, move, last, changes, mem>>

\* cc.mux.Lock() returns when the mutex is free
TaskLockCrossCache(k) ==
  /\ conc.task[k].pc = "ccLock"
  /\ conc.ccMux = 0
  /\ conc' = [conc EXCEPT !.ccMux = k, !.task[k].pc = "ccGet"]
  /\ UNCHANGED <<game, crossCache, move, last, changes, mem>>

\* cc.lru.Get(key): a hit returns the cached value; after a miss fetchFunc
\* calls dawg.Match, whose navigation begins with iterNode(0)
TaskLruGet(k) ==
  /\ conc.task[k].pc = "ccGet"
  /\ LET got == LruGet(crossCache, CrossKey(conc.task[k].left, conc.task[k].right))
     IN IF got.ok
        THEN /\ crossCache' = got.cache
             /\ conc' = [conc EXCEPT !.task[k].pc = "ccReturn",
                                     !.task[k].val = got.val,
                                     !.task[k].hit = TRUE]
        ELSE /\ crossCache' = crossCache
             /\ conc' = [conc EXCEPT !.task[k].pc = "muxLock",
                                     !.task[k].node = 0,
                                     !.task[k].inFetch = TRUE,
                                     !.task[k].hit = FALSE,
                                     !.task[k].fetched = 1]
  /\ UNCHANGED <<game, move, last, changes, mem>>

\* The navigation of dawg.Match goes on into the node of the first edge
\* of the node it is at: iterNode(nextNode)
TaskFetchNode(k) ==
  /\ conc.task[k].pc = "fetch"
  /\ conc.task[k].fetched < MaxFetchNodes
  /\ iterNode(conc.task[k].node)[1].nextNode # 0
  /\ conc' = [conc EXCEPT !.task[k].pc = "muxLock",
                          !.task[k].node = iterNode(conc.task[k].node)[1].nextNode,
                          !.task[k].fetched = @ + 1]
  /\ UNCHANGED <<game, crossCache, move, last, changes, mem>>

\* fetchFunc returns the set of the middle letters of the matches;
\* cc.lru.Add(key, bitMap)
TaskLruAdd(k) ==
  /\ conc.task[k].pc = "fetch"
  /\ LET added(val) ==
           /\ crossCache' = LruAdd(crossCache,
                                   CrossKey(conc.task[k].left, conc.task[k].right),
                                   val)
           /\ conc' = [conc EXCEPT !.task[k].pc = "ccReturn",
                                   !.task[k].val = val,
                                   !.task[k].inFetch = FALSE]
     IN added(CrossSetFetch(conc.task[k].left, conc.task[k].right))
  /\ UNCHANGED <<game, move, last, changes, mem>>

\* Lookup returns: the deferred cc.mux.Unlock(); CrossSet returns the value
TaskUnlockCrossCache(k) ==
  /\ conc.task[k].pc = "ccReturn"
  /\ conc' = [conc EXCEPT !.ccMux = 0, !.task[k].pc = "ready",
                          !.task[k].ops = @ + 1]
  /\ last' = [op |-> "CrossSet", task |-> k, left |-> conc.task[k].left,
              right |-> conc.task[k].right, val |-> conc.task[k].val,
              cached |-> conc.task[k].hit]
  /\ UNCHANGED <<game, crossCache, move, changes, mem>>

\* The navigation of a task comes to a node: dawg.iterNode(offset), at
\* dawg.mux.Lock()
TaskCallIterNode(k) ==
  /\ conc.task[k].pc = "ready"
  /\ conc.task[k].ops < MaxLockOps
  /\ \E offset \in LockNodes :
       conc' = [conc EXCEPT !.task[k].pc = "muxLock",
                            !.task[k].node = offset,
                            !.task[k].inFetch = FALSE]
  /\ UNCHANGED <<game, crossCache, move, last, changes, mem>>

\* dawg.mux.Lock() returns when the mutex is free
TaskLockIterNode(k) ==
  /\ conc.task[k].pc = "muxLock"
  /\ conc.mux = 0
  /\ conc' = [conc EXCEPT !.mux = k, !.task[k].pc = "muxHeld"]
  /\ UNCHANGED <<game, crossCache, move, last, changes, mem>>

\* iterNode finds the node in iterNodeCache or decodes and caches it, and
\* returns: the deferred dawg.mux.Unlock()
TaskIterNodeReturn(k) ==
  /\ conc.task[k].pc = "muxHeld"
  /\ conc' = [conc EXCEPT
               !.mux = 0,
               !.iterNodeCache = @ \cup {conc.task[k].node},
               !.task[k].pc = IF conc.task[k].inFetch THEN "fetch" ELSE "ready",
               !.task[k].ops = IF conc.task[k].inFetch THEN @ ELSE @ + 1]
  /\ last' = [op |-> "iterNode", task |-> k, node |-> conc.task[k].node,
              val |-> iterNode(conc.task[k].node),
              cached |-> conc.task[k].node \in conc.iterNodeCache]
  /\ UNCHANGED <<game, crossCache, move, changes, mem>>

NextLock ==
  \/ \E k \in 1..LockTasks : TaskCallCrossSet(k)
  \/ \E k \in 1..LockTasks : TaskLockCrossCache(k)
  \/ \E k \in 1..LockTasks : TaskLruGet(k)
  \/ \E k \in 1..LockTasks : TaskFetchNode(k)
  \/ \E k \in 1..LockTasks : TaskLruAdd(k)
  \/ \E k \in 1..LockTasks : TaskUnlockCrossCache(k)
  \/ \E k \in 1..LockTasks : TaskCallIterNode(k)
  \/ \E k \in 1..LockTasks : TaskLockIterNode(k)
  \/ \E k \in 1..LockTasks : TaskIterNodeReturn(k)

\* Tasks that call CrossSet and iterNode, interleaved in any order
SpecLock == InitLock /\ [][NextLock]_vars

\* The mutexes a task holds
HeldBy(k) ==
  (IF conc.ccMux = k THEN {"cc.mux"} ELSE {})
  \cup (IF conc.mux = k THEN {"dawg.mux"} ELSE {})

\* The task is at the Lock() of a mutex
AtLock(k) == conc.task[k].pc \in {"ccLock", "muxLock"}

\* The task waits for a mutex that another task holds
Waits(k) ==
  \/ conc.task[k].pc = "ccLock" /\ conc.ccMux # 0
  \/ conc.task[k].pc = "muxLock" /\ conc.mux # 0

\* C23: the cache locks are leaves in the lock order: a task that holds the
\* mutex of the cross-set cache or that of iterNodeCache does not come to
\* the Lock() of another mutex; and the tasks do not deadlock: they never
\* all wait.
LocksAreLeaves ==
  /\ \A k \in 1..LockTasks : HeldBy(k) # {} => ~AtLock(k)
  /\ \E k \in 1..LockTasks : ~Waits(k)

AcceptingAxes == {0, 7}

\* The racks left to a navigator: none, one letter, a blank
AcceptingRacks == {<<>>, <<"a">>, <<"?">>}

\* ern.IsAccepting() of a navigator at any index from its anchor to the one
\* beyond the last square of the axis, with what its rack has left
CallIsAccepting ==
  /\ last.op = "none"
  /\ \E index \in AcceptingAxes, horizontal \in BOOLEAN, anchor \in 0..(BoardSize - 1),
        rack \in AcceptingRacks :
       \E at \in anchor..BoardSize :
         LET axis == Axis_Init([Board |-> game.Board, Rack |-> RackOf(rack),
                                cache |-> crossCache],
                               MakeSet(rack), index, horizontal)
             ern == [ExtendRightNavigator_Init(axis, anchor, rack) EXCEPT !.index = at]
         IN last' = [op |-> "IsAccepting", ret |-> ExtendRightNavigator_IsAccepting(ern),
                     index |-> at, rack |-> rack,
                     sq |-> IF at < BoardSize THEN axis.sq[at + 1] ELSE <<-1, -1>>]
  /\ UNCHANGED <<game, crossCache, move, changes, conc, mem>>

NextAccepting == CallIsAccepting

\* One IsAccepting call on each of the boards
SpecAccepting == InitCoord /\ [][NextAccepting]_vars

\* C25: ExtendRight stops when the index is off the board, and when the
\* rack is empty and the square at the index holds no tile; with an empty
\* rack it goes on only while the square is occupied.
ExtendRightStops ==
  last.op = "IsAccepting" =>
    (last.ret <=>
       /\ last.index < BoardSize
       /\ (last.rack # <<>> \/ SqTile(game.Board, last.sq) # NoTile))

\* ------------------------------------------------------------------------
\* The moves that the generator emits (movegen.go)
\* ------------------------------------------------------------------------

\* The longest rack of the generating players
MaxEmitRack == 3

\* A board with the word 'ab' along a row and the word 'ba' down from its
\* b: the square (8,7) has a tile above it and a tile to its right
CornerBoard ==
  BoardWith(BoardWith(Board_Init("standard"), <<7, 7>>, TRUE, <<"a", "b">>),
            <<8, 8>>, FALSE, <<"a">>)

EmitBoards == FailBoards \cup {CornerBoard}

EmitRacks == {r \in FailRacks : Len(r) <= MaxEmitRack}

InitEmit ==
  /\ \E board \in EmitBoards, rack \in EmitRacks :
       game = [Game_Init(board.Type, TRUE) EXCEPT
                 !.Board = board, !.Racks[1] = RackOf(rack)]
  /\ crossCache = <<>>
  /\ move = NoMove
  /\ last = NoCall
  /\ changes = 0
  /\ conc = NoGenerate
  /\ mem = NoMem

\* GenerateMoves called once on each of the boards with each of the racks
SpecEmit == InitEmit /\ [][NextFail]_vars

\* The squares of the word that a move forms along its direction
WordSquares(board, m) ==
  LET first == CHOOSE c \in DOMAIN m.Covers : TRUE
  IN Range(RunSquares(board, m.Covers,
                      RunStart(board, m.Covers, first, m.Horizontal),
                      m.Horizontal))

\* C26: in every TileMove that the generator emits the covers are exactly
\* the squares of the formed word that were empty before the move, never a
\* square that holds a tile, and the letters of the covers, a blank counted
\* as '?', are contained in the multiset of the tiles of the rack.
EmittedCovers ==
  last.op = "GenerateMoves" =>
    \A i \in 1..Len(last.moves) :
      /\ DOMAIN last.moves[i].Covers # {}
      /\ DOMAIN last.moves[i].Covers
           = {c \in WordSquares(game.Board, last.moves[i]) :
                SqTile(game.Board, c) = NoTile}
      /\ \A r \in Runes :
           Cardinality({c \in DOMAIN last.moves[i].Covers :
                          last.moves[i].Covers[c].Letter = r})
             <= CountRune(AsRunes(game.Racks[PlayerToMove(game) + 1]), r)

\* A move has been emitted that lays the blank and a letter around the
\* tiles of the word on the board
EmittedAroundTiles ==
  /\ last.op = "GenerateMoves"
  /\ \E i \in 1..Len(last.moves) :
       /\ Cardinality(DOMAIN last.moves[i].Covers) = 2
       /\ Cardinality(WordSquares(game.Board, last.moves[i])) = 3
       /\ \E c \in DOMAIN last.moves[i].Covers : last.moves[i].Covers[c].Letter = "?"

\* C28: GenerateMoves never returns the same move twice: no two TileMoves
\* of one result have the same covers, on the empty board and in mid-game,
\* single tiles that form a word in both directions included.
NoMoveTwice ==
  last.op = "GenerateMoves" =>
    \A i, j \in 1..Len(last.moves) :
      last.moves[i].Covers = last.moves[j].Covers => i = j

\* ------------------------------------------------------------------------
\* Resuming a navigation from a cursor (navigators.go)
\* ------------------------------------------------------------------------

\* The word goes on after the prefix
Continues(word, prefix) ==
  /\ Len(word) > Len(prefix)
  /\ SubSeq(word, 1, Len(prefix)) = prefix

\* The words of a result list that go on after the prefix, in their order
ContinuationsOf(results, prefix) ==
  LET goesOn(word) == Continues(word, prefix)
  IN SelectSeq(results, goesOn)

\* C27: Resume(navigator, c, p) with the cursor c that Accept received after
\* the prefix p was matched reports the same complete words, with the same
\* matched runes and in the same order, as the navigation from the root
\* reports after it has matched p; also when p ends inside an edge of
\* several runes or at a word boundary.
ResumptionEquivalence ==
  last.op = "Resume" =>
    /\ last.cursor # NilState
    /\ last.results = ContinuationsOf(last.root, last.prefix)

\* The navigation was resumed after 'ba', a word that ends inside the edge
\* 'ba|b|', and has gone on to 'bab'
ResumedInsideEdge ==
  /\ last.op = "Resume"
  /\ last.prefix = <<"b", "a">>
  /\ last.cursor = [prefix |-> <<"b", "|">>, nextNode |-> 0]
  /\ last.results = << <<"b", "a", "b">> >>

\* ------------------------------------------------------------------------
\* Moves that are applied to a finished game (game.go)
\* ------------------------------------------------------------------------

\* The number of moves that are applied to one game
MaxOverMoves == 7

\* The games whose bag allows exchanges, with and without word validation
InitOver ==
  /\ \E size \in {RackSize, RackSize + 1}, validateWords \in BOOLEAN :
       game = [ExchangeGame(size) EXCEPT !.ValidateWords = validateWords]
  /\ crossCache = <<>>
  /\ move = NoMove
  /\ last = NoCall
  /\ changes = 0
  /\ conc = NoGenerate
  /\ mem = NoMem

\* game.Apply(NewPassMove()), whether the game is over or not
OverPass ==
  /\ changes < MaxOverMoves
  /\ \E out \in Apply(game, NewPassMove) :
       /\ game' = out.game
       /\ last' = [NoCall EXCEPT !.op = "Pass", !.ret = out.ret]
  /\ changes' = changes + 1
  /\ UNCHANGED <<crossCache, move, conc, mem>>

\* game.Apply(NewExchangeMove(letters)) of the first letter of the rack,
\* whether the game is over or not
OverExchange ==
  /\ changes < MaxOverMoves
  /\ \E out \in Apply(game, NewExchangeMove(
                   SubSeq(AsRunes(game.Racks[PlayerToMove(game) + 1]), 1, 1))) :
       /\ game' = out.game
       /\ last' = [NoCall EXCEPT !.op = "Exchange", !.ret = out.ret]
  /\ changes' = changes + 1
  /\ UNCHANGED <<crossCache, move, conc, mem>>

NextOver ==
  \/ OverPass
  \/ OverExchange

\* Passes and exchanges, applied for as long as the caller likes
SpecOver == InitOver /\ [][NextOver]_vars

\* C29: game over is stable: once Game.IsOver() has returned true it
\* returns true after every later Apply, for example of further passes.
GameOverIsStable == [][IsOver(game) => IsOver(game')]_vars

\* The game is over by six zero-point moves and has its two final moves
OverBySixPasses ==
  /\ IsOver(game)
  /\ game.NumPassMoves = 6
  /\ Len(game.MoveList) = 8

\* ------------------------------------------------------------------------
\* The letter counts of a rack (board.go)
\* ------------------------------------------------------------------------

\* The number of slots of the rack that hold a tile with the letter
SlotsWithLetter(rack, r) ==
  Cardinality({i \in 1..RackSize :
                 rack.Slots[i] # NoTile /\ rack.Slots[i].Letter = r})

\* C30: after any sequence of rack operations (filling, removal of tiles,
\* exchanges, tile plays) the letter-count map of a rack is the multiset of
\* the letters in its seven slots: for every rune the stored count is the
\* number of slots that hold a tile with that letter, and never negative.
LettersCountSlots ==
  \A p \in 1..2 : \A r \in Runes :
    /\ game.Racks[p].Letters[r] >= 0
    /\ game.Racks[p].Letters[r] = SlotsWithLetter(game.Racks[p], r)

====
